---- MODULE Spec2Model ----
(***************************************************************************)
(* The CSV ingestion pipeline of ConnectorPro's python backend: the two    *)
(* CSVService variants (csv_service_simple.py, which the test scripts      *)
(* exercise, and csv_service_enhanced.py, which main.py's import endpoint  *)
(* uses). Text is modelled as TLA+ strings handled character by character. *)
(***************************************************************************)
EXTENDS Integers, Sequences, FiniteSets, TLC

(***************************************************************************)
(* Python str operations                                                   *)
(***************************************************************************)
\* s[i-1] as a one-character string
Ch(s, i) == SubSeq(s, i, i)

Digits == "0123456789"

CharsOf(s) == { Ch(s, i) : i \in 1..Len(s) }

\* characters str.strip() and str.split() treat as whitespace
Whitespace == {" ", "\t", "\n", "\r"}

UpperChars == {"A", "B", "C", "D", "E", "F", "G", "H", "I", "J", "K", "L", "M", "N", "O", "P", "Q", "R", "S", "T", "U", "V", "W", "X", "Y", "Z"}
LowerChars == {"a", "b", "c", "d", "e", "f", "g", "h", "i", "j", "k", "l", "m", "n", "o", "p", "q", "r", "s", "t", "u", "v", "w", "x", "y", "z"}
DigitChars == {"0", "1", "2", "3", "4", "5", "6", "7", "8", "9"}
\* str.lower() and str.upper() on one ASCII letter
ToLower ==
  "A" :> "a" @@ "B" :> "b" @@ "C" :> "c" @@ "D" :> "d" @@ "E" :> "e" @@ "F" :> "f" @@ "G" :> "g"
  @@ "H" :> "h" @@ "I" :> "i" @@ "J" :> "j" @@ "K" :> "k" @@ "L" :> "l" @@ "M" :> "m" @@ "N" :> "n"
  @@ "O" :> "o" @@ "P" :> "p" @@ "Q" :> "q" @@ "R" :> "r" @@ "S" :> "s" @@ "T" :> "t" @@ "U" :> "u"
  @@ "V" :> "v" @@ "W" :> "w" @@ "X" :> "x" @@ "Y" :> "y" @@ "Z" :> "z"
ToUpper ==
  "a" :> "A" @@ "b" :> "B" @@ "c" :> "C" @@ "d" :> "D" @@ "e" :> "E" @@ "f" :> "F" @@ "g" :> "G"
  @@ "h" :> "H" @@ "i" :> "I" @@ "j" :> "J" @@ "k" :> "K" @@ "l" :> "L" @@ "m" :> "M" @@ "n" :> "N"
  @@ "o" :> "O" @@ "p" :> "P" @@ "q" :> "Q" @@ "r" :> "R" @@ "s" :> "S" @@ "t" :> "T" @@ "u" :> "U"
  @@ "v" :> "V" @@ "w" :> "W" @@ "x" :> "X" @@ "y" :> "Y" @@ "z" :> "Z"

IsUpper(c) == c \in UpperChars
IsLower(c) == c \in LowerChars
IsCased(c) == IsUpper(c) \/ IsLower(c)
IsDigit(c) == c \in DigitChars

\* the lower-case and upper-case form of one character
LowerChar(c) == IF IsUpper(c) THEN ToLower[c] ELSE c
UpperChar(c) == IF IsLower(c) THEN ToUpper[c] ELSE c

RECURSIVE MapChars(_, _)
\* s with every character c replaced by the string f[c] (f a function on CharsOf(s))
MapChars(s, f) ==
  IF s = "" THEN ""
  ELSE IF Len(s) = 1 THEN f[s]
  ELSE LET half == Len(s) \div 2
       IN MapChars(SubSeq(s, 1, half), f) \o MapChars(SubSeq(s, half + 1, Len(s)), f)

\* str.lower()
Lower(s) == MapChars(s, [c \in CharsOf(s) |-> LowerChar(c)])

\* str.replace(old, new) for a one-character old
Replace(s, old, new) == MapChars(s, [c \in CharsOf(s) |-> IF c = old THEN new ELSE c])

RECURSIVE LStrip(_)
LStrip(s) == IF s # "" /\ Head(s) \in Whitespace THEN LStrip(Tail(s)) ELSE s

RECURSIVE RStrip(_)
RStrip(s) ==
  IF s # "" /\ Ch(s, Len(s)) \in Whitespace THEN RStrip(SubSeq(s, 1, Len(s) - 1)) ELSE s

\* str.strip()
Strip(s) == RStrip(LStrip(s))

RECURSIVE LStripChar(_, _)
\* str.lstrip(c) for a one-character c
LStripChar(s, c) == IF s # "" /\ Head(s) = c THEN LStripChar(Tail(s), c) ELSE s

\* str.startswith(p)
StartsWith(s, p) == Len(s) >= Len(p) /\ SubSeq(s, 1, Len(p)) = p

\* `sub in s`
Contains(s, sub) ==
  \E i \in 1..(Len(s) - Len(sub) + 1) : SubSeq(s, i, i + Len(sub) - 1) = sub

\* index of the first occurrence of the character c in s, 0 when there is none
FirstIndex(s, c) ==
  IF c \in CharsOf(s) THEN CHOOSE i \in 1..Len(s) : Ch(s, i) = c /\ \A j \in 1..(i - 1) : Ch(s, j) # c
  ELSE 0

RECURSIVE Split(_, _)
\* str.split(sep) for a one-character sep: a non-empty list of strings
Split(s, sep) ==
  LET i == FirstIndex(s, sep)
  IN IF i = 0 THEN <<s>>
     ELSE <<SubSeq(s, 1, i - 1)>> \o Split(SubSeq(s, i + 1, Len(s)), sep)

RECURSIVE Join(_, _)
\* sep.join(parts)
Join(parts, sep) ==
  IF parts = <<>> THEN ""
  ELSE IF Len(parts) = 1 THEN parts[1]
  ELSE parts[1] \o sep \o Join(Tail(parts), sep)

\* str.split() with no argument: the maximal runs of non-whitespace characters
SplitWords(s) ==
  LET t == MapChars(s, [c \in CharsOf(s) |-> IF c \in Whitespace THEN " " ELSE c])
  IN SelectSeq(Split(t, " "), LAMBDA w : w # "")

RECURSIVE TitleFrom(_, _)
TitleFrom(s, prevCased) ==
  IF s = "" THEN ""
  ELSE LET c == Head(s)
       IN (IF IsCased(c) THEN (IF prevCased THEN LowerChar(c) ELSE UpperChar(c)) ELSE c)
          \o TitleFrom(Tail(s), IsCased(c))

\* str.title()
Title(s) == TitleFrom(s, FALSE)

\* re.sub(r'[^\d+]', '', s)
KeepDigitsPlus(s) == MapChars(s, [c \in CharsOf(s) |-> IF IsDigit(c) \/ c = "+" THEN c ELSE ""])


(***************************************************************************)
(* CSVService: field-name normalisation                                    *)
(***************************************************************************)
Variants == {"simple", "enhanced"}

\* CSVService.__init__: the synonym table of each variant, as (key, canonical) pairs
field_mappings_simple ==
  {
    <<"first name", "first_name">>, <<"first_name", "first_name">>, <<"firstname", "first_name">>,
    <<"fname", "first_name">>, <<"given name", "first_name">>, <<"given_name", "first_name">>,
    <<"givenname", "first_name">>, <<"last name", "last_name">>, <<"last_name", "last_name">>,
    <<"lastname", "last_name">>, <<"lname", "last_name">>, <<"surname", "last_name">>,
    <<"family name", "last_name">>, <<"family_name", "last_name">>, <<"familyname", "last_name">>,
    <<"name", "name">>, <<"full name", "name">>, <<"full_name", "name">>,
    <<"fullname", "name">>, <<"contact name", "name">>, <<"contact_name", "name">>,
    <<"contactname", "name">>, <<"email", "email">>, <<"email address", "email">>,
    <<"email_address", "email">>, <<"emailaddress", "email">>, <<"e-mail", "email">>,
    <<"e_mail", "email">>, <<"e mail", "email">>, <<"mail", "email">>,
    <<"contact email", "email">>, <<"contact_email", "email">>, <<"contactemail", "email">>,
    <<"phone", "phone">>, <<"phone number", "phone">>, <<"phone_number", "phone">>,
    <<"phonenumber", "phone">>, <<"mobile", "phone">>, <<"mobile number", "phone">>,
    <<"mobile_number", "phone">>, <<"mobilenumber", "phone">>, <<"cell", "phone">>,
    <<"cell phone", "phone">>, <<"cell_phone", "phone">>, <<"cellphone", "phone">>,
    <<"telephone", "phone">>, <<"tel", "phone">>, <<"contact phone", "phone">>,
    <<"contact_phone", "phone">>, <<"contactphone", "phone">>, <<"company", "company">>,
    <<"organization", "company">>, <<"organisation", "company">>, <<"employer", "company">>,
    <<"workplace", "company">>, <<"work place", "company">>, <<"business", "company">>,
    <<"firm", "company">>, <<"corp", "company">>, <<"corporation", "company">>,
    <<"title", "title">>, <<"position", "title">>, <<"job title", "title">>,
    <<"job_title", "title">>, <<"jobtitle", "title">>, <<"role", "title">>,
    <<"designation", "title">>, <<"job", "title">>, <<"occupation", "title">>,
    <<"work title", "title">>, <<"work_title", "title">>, <<"worktitle", "title">>,
    <<"url", "profile_url">>, <<"profile url", "profile_url">>, <<"profile_url", "profile_url">>,
    <<"profileurl", "profile_url">>, <<"linkedin", "profile_url">>, <<"linkedin url", "profile_url">>,
    <<"linkedin_url", "profile_url">>, <<"linkedinurl", "profile_url">>, <<"linkedin profile", "profile_url">>,
    <<"linkedin_profile", "profile_url">>, <<"linkedinprofile", "profile_url">>, <<"profile", "profile_url">>,
    <<"link", "profile_url">>, <<"connected on", "connected_on">>, <<"connected_on", "connected_on">>,
    <<"connectedon", "connected_on">>, <<"connection date", "connected_on">>, <<"connection_date", "connected_on">>,
    <<"connectiondate", "connected_on">>, <<"date connected", "connected_on">>, <<"date_connected", "connected_on">>,
    <<"dateconnected", "connected_on">>, <<"notes", "notes">>, <<"comments", "notes">>,
    <<"description", "notes">>, <<"note", "notes">>, <<"comment", "notes">>
  }

field_mappings_enhanced ==
  {
    <<"first name", "first_name">>, <<"last name", "last_name">>, <<"url", "profile_url">>,
    <<"email address", "email">>, <<"company", "company">>, <<"position", "title">>,
    <<"connected on", "connected_on">>, <<"first_name", "first_name">>, <<"firstname", "first_name">>,
    <<"fname", "first_name">>, <<"given name", "first_name">>, <<"given_name", "first_name">>,
    <<"last_name", "last_name">>, <<"lastname", "last_name">>, <<"lname", "last_name">>,
    <<"surname", "last_name">>, <<"family name", "last_name">>, <<"family_name", "last_name">>,
    <<"name", "name">>, <<"full name", "name">>, <<"full_name", "name">>,
    <<"fullname", "name">>, <<"email", "email">>, <<"e-mail", "email">>,
    <<"e_mail", "email">>, <<"mail", "email">>, <<"phone", "phone">>,
    <<"phone number", "phone">>, <<"phone_number", "phone">>, <<"mobile", "phone">>,
    <<"telephone", "phone">>, <<"tel", "phone">>, <<"organization", "company">>,
    <<"organisation", "company">>, <<"employer", "company">>, <<"workplace", "company">>,
    <<"title", "title">>, <<"job title", "title">>, <<"job_title", "title">>,
    <<"role", "title">>, <<"designation", "title">>, <<"profile url", "profile_url">>,
    <<"profile_url", "profile_url">>, <<"linkedin", "profile_url">>, <<"linkedin url", "profile_url">>,
    <<"linkedin_url", "profile_url">>, <<"linkedin profile", "profile_url">>, <<"linkedin_profile", "profile_url">>,
    <<"profile", "profile_url">>, <<"link", "profile_url">>, <<"connected_on", "connected_on">>,
    <<"connection date", "connected_on">>, <<"connection_date", "connected_on">>, <<"date connected", "connected_on">>,
    <<"date_connected", "connected_on">>, <<"notes", "notes">>, <<"comments", "notes">>,
    <<"description", "notes">>, <<"note", "notes">>, <<"comment", "notes">>
  }

field_mappings(v) == IF v = "simple" THEN field_mappings_simple ELSE field_mappings_enhanced

InMappings(v, k) == \E p \in field_mappings(v) : p[1] = k
Mapping(v, k) == (CHOOSE p \in field_mappings(v) : p[1] = k)[2]

\* the separators '-' and '_' are turned into spaces and '.' is left alone
normalize_field_name_keeps_dots(v, field_name) ==
  IF field_name = "" THEN ""
  ELSE
    LET lowered == Strip(Lower(field_name))
        separated == Replace(Replace(lowered, "-", " "), "_", " ")
        normalized == Join(SplitWords(separated), " ")
        no_spaces == Replace(normalized, " ", "")
        with_underscores == Replace(normalized, " ", "_")
    IN IF InMappings(v, normalized) THEN Mapping(v, normalized)
       ELSE IF InMappings(v, no_spaces) THEN Mapping(v, no_spaces)
       ELSE IF InMappings(v, with_underscores) THEN Mapping(v, with_underscores)
       ELSE IF with_underscores # "" THEN with_underscores ELSE normalized

\* a header without a mapping is kept under a slug marked as unknown
normalize_field_name_marked_slug(v, field_name) ==
  IF field_name = "" THEN ""
  ELSE
    LET lowered == Strip(Lower(field_name))
        separated == Replace(Replace(Replace(lowered, "-", " "), "_", " "), ".", " ")
        normalized == Join(SplitWords(separated), " ")
        no_spaces == Replace(normalized, " ", "")
        with_underscores == Replace(normalized, " ", "_")
    IN IF InMappings(v, normalized) THEN Mapping(v, normalized)
       ELSE IF InMappings(v, no_spaces) THEN Mapping(v, no_spaces)
       ELSE IF InMappings(v, with_underscores) THEN Mapping(v, with_underscores)
       ELSE "unknown_" \o with_underscores

normalize_field_name(v, field_name) ==
  IF field_name = "" THEN ""
  ELSE
    LET lowered == Strip(Lower(field_name))
        separated == Replace(Replace(Replace(lowered, "-", " "), "_", " "), ".", " ")
        normalized == Join(SplitWords(separated), " ")
        no_spaces == Replace(normalized, " ", "")
        with_underscores == Replace(normalized, " ", "_")
    IN IF InMappings(v, normalized) THEN Mapping(v, normalized)
       ELSE IF InMappings(v, no_spaces) THEN Mapping(v, no_spaces)
       ELSE IF InMappings(v, with_underscores) THEN Mapping(v, with_underscores)
       ELSE IF with_underscores # "" THEN with_underscores ELSE normalized

(***************************************************************************)
(* CSVService: one normalized row to one contact                           *)
(***************************************************************************)
\* None and '' are both falsy in every test the services make on a field, and the
\* parsers store stripped cell values, so an absent optional field is modelled as "".
None == ""

\* row.get(key, '')
Get(row, key) == IF key \in DOMAIN row THEN row[key] ELSE ""

\* str(row.get(key, '')).strip() if row.get(key) else ""
Cleaned(row, key) == IF Get(row, key) # "" THEN Strip(Get(row, key)) ELSE ""

\* the gate without its "also accept" part: only a first or last name counts
is_valid_contact_row_names_only(v, row) ==
  Cleaned(row, "first_name") # "" \/ Cleaned(row, "last_name") # ""

is_valid_contact_row(v, row) ==
  LET first_name == Cleaned(row, "first_name")
      last_name == Cleaned(row, "last_name")
      company == Cleaned(row, "company")
      email == Cleaned(row, "email")
      profile_url == Cleaned(row, "profile_url")
      has_name == first_name # "" \/ last_name # ""
  IN has_name \/ company # "" \/ email # "" \/ profile_url # ""

parse_name(v, row) ==
  IF Get(row, "name") # "" THEN Strip(Get(row, "name"))
  ELSE
    LET first_name == Strip(Get(row, "first_name"))
        last_name == Strip(Get(row, "last_name"))
        company == Strip(Get(row, "company"))
        email == Strip(Get(row, "email"))
    IN IF first_name # "" /\ last_name # "" THEN first_name \o " " \o last_name
       ELSE IF first_name # "" THEN first_name
       ELSE IF last_name # "" THEN last_name
       ELSE IF company # "" THEN "Contact at " \o company
       ELSE IF email # "" THEN Title(Replace(Replace(Split(email, "@")[1], ".", " "), "_", " "))
       ELSE "Unknown Contact"

\* csv_service_simple.py only
clean_phone_number(phone) ==
  IF phone = "" THEN ""
  ELSE LET cleaned == KeepDigitsPlus(phone)
       IN IF StartsWith(cleaned, "+") THEN cleaned ELSE LStripChar(cleaned, "+")

clean_linkedin_url(v, raw) ==
  IF raw = "" THEN ""
  ELSE
    LET url == Strip(raw)
        full == IF StartsWith(url, "http") THEN url
                ELSE IF ~Contains(url, "/") THEN "https://linkedin.com/in/" \o url
                ELSE "https://linkedin.com/" \o LStripChar(url, "/")
    IN IF ~Contains(Lower(full), "linkedin.com") THEN "" ELSE full

determine_relationship_strength(v, row) ==
  IF Get(row, "email") # "" THEN "medium"
  ELSE IF Get(row, "phone") # "" THEN "strong"
  ELSE IF Get(row, "notes") # "" THEN "medium"
  ELSE "weak"

(***************************************************************************)
(* datetime: strptime / strftime / utcnow                                  *)
(***************************************************************************)
DigitVal(c) == (CHOOSE i \in 1..10 : Ch(Digits, i) = c) - 1

AllDigits(s) == s # "" /\ \A i \in 1..Len(s) : IsDigit(Ch(s, i))

RECURSIVE ToInt(_)
\* int(s) for a string of decimal digits
ToInt(s) == IF s = "" THEN 0 ELSE ToInt(SubSeq(s, 1, Len(s) - 1)) * 10 + DigitVal(Ch(s, Len(s)))

RECURSIVE IntToStr(_)
\* str(n) for n >= 0
IntToStr(n) == IF n < 10 THEN Ch(Digits, n + 1) ELSE IntToStr(n \div 10) \o Ch(Digits, (n % 10) + 1)

MonthAbbr == <<"jan", "feb", "mar", "apr", "may", "jun", "jul", "aug", "sep", "oct", "nov", "dec">>

IsLeap(y) == (y % 4 = 0 /\ y % 100 # 0) \/ y % 400 = 0

DaysIn(y, m) ==
  IF m = 2 THEN (IF IsLeap(y) THEN 29 ELSE 28)
  ELSE IF m \in {4, 6, 9, 11} THEN 30 ELSE 31

\* the value strptime raising ValueError is modelled by
BadDate == [y |-> 0, m |-> 0, d |-> 0, tick |-> 0]

\* a parsed calendar date is midnight of that day; utcnow() carries the clock reading
DateOf(y, m, d) ==
  IF y >= 1 /\ m \in 1..12 /\ d >= 1 /\ d <= DaysIn(y, m)
    THEN [y |-> y, m |-> m, d |-> d, tick |-> 0]
    ELSE BadDate

\* directive %d and %m: one or two digits, no value 0
IsDayOrMonth(s) == Len(s) \in {1, 2} /\ AllDigits(s) /\ ToInt(s) >= 1
\* directive %Y: exactly four digits
IsYear(s) == Len(s) = 4 /\ AllDigits(s)
\* directive %b, matched ignoring case
IsMonthAbbr(s) == \E i \in 1..12 : MonthAbbr[i] = Lower(s)
MonthOf(s) == CHOOSE i \in 1..12 : MonthAbbr[i] = Lower(s)

\* datetime.strptime(s, "%d %b %Y"); a blank in the format matches any run of whitespace
strptime_d_b_Y(s) ==
  LET w == SplitWords(s)
  IN IF Len(w) = 3 /\ Strip(s) = s /\ IsDayOrMonth(w[1]) /\ IsMonthAbbr(w[2]) /\ IsYear(w[3])
       THEN DateOf(ToInt(w[3]), MonthOf(w[2]), ToInt(w[1]))
       ELSE BadDate

\* datetime.strptime(s, "%Y-%m-%d")
strptime_Y_m_d(s) ==
  LET p == Split(s, "-")
  IN IF Len(p) = 3 /\ IsYear(p[1]) /\ IsDayOrMonth(p[2]) /\ IsDayOrMonth(p[3])
       THEN DateOf(ToInt(p[1]), ToInt(p[2]), ToInt(p[3]))
       ELSE BadDate

\* datetime.strptime(s, "%m/%d/%Y")
strptime_m_d_Y(s) ==
  LET p == Split(s, "/")
  IN IF Len(p) = 3 /\ IsDayOrMonth(p[1]) /\ IsDayOrMonth(p[2]) /\ IsYear(p[3])
       THEN DateOf(ToInt(p[3]), ToInt(p[1]), ToInt(p[2]))
       ELSE BadDate

\* the calendar day the import runs on
IngestionDay == [y |-> 2025, m |-> 9, d |-> 1]

\* datetime.utcnow() when the clock reads t (t >= 1)
utcnow(t) == [y |-> IngestionDay.y, m |-> IngestionDay.m, d |-> IngestionDay.d, tick |-> t]

\* dt.strftime('%d %b %Y')
strftime_d_b_Y(dt) ==
  (IF dt.d < 10 THEN "0" ELSE "") \o IntToStr(dt.d) \o " "
    \o Title(MonthAbbr[dt.m]) \o " " \o IntToStr(dt.y)

\* csv_service_simple.py; t is what the clock reads if utcnow() is called
parse_connected_date(date_str, t) ==
  IF date_str = "" THEN utcnow(t)
  ELSE IF strptime_d_b_Y(Strip(date_str)) # BadDate THEN strptime_d_b_Y(Strip(date_str))
  ELSE IF strptime_Y_m_d(Strip(date_str)) # BadDate THEN strptime_Y_m_d(Strip(date_str))
  ELSE IF strptime_m_d_Y(Strip(date_str)) # BadDate THEN strptime_m_d_Y(Strip(date_str))
  ELSE utcnow(t)

\* csv_service_enhanced.py row_to_contact, "Parse connected date if available"
\* (None is modelled by BadDate)
connected_date_enhanced(row) ==
  LET date_str == Strip(Get(row, "connected_on"))
  IN IF Get(row, "connected_on") = "" \/ date_str = "" THEN BadDate
     ELSE IF strptime_d_b_Y(date_str) # BadDate THEN strptime_d_b_Y(date_str)
     ELSE strptime_Y_m_d(date_str)

(***************************************************************************)
(* row_to_contact                                                          *)
(***************************************************************************)
\* the None that row_to_contact returns in place of a contact
NoContact == [absent |-> TRUE]

Tags == {"csv-import", "linkedin-export"}

\* csv_service_simple.py; t1 <= t2 are the clock readings of the two utcnow() calls
row_to_contact_simple(row, row_index, t1, t2) ==
  IF ~is_valid_contact_row("simple", row)
    THEN [contact |-> NoContact,
          errors |-> <<"Row " \o IntToStr(row_index) \o ": Missing First Name or Last Name - skipping">>]
  ELSE
    LET name == parse_name("simple", row)
        email == Cleaned(row, "email")
        company == Cleaned(row, "company")
        title == Cleaned(row, "title")
        phone == clean_phone_number(Get(row, "phone"))
        linkedin_url == clean_linkedin_url("simple", Get(row, "profile_url"))
        notes0 == Cleaned(row, "notes")
        email_note == "Email missing from LinkedIn export"
        notes1 == IF email = ""
                    THEN (IF notes0 # "" THEN Strip(email_note \o "\n" \o notes0) ELSE email_note)
                    ELSE notes0
        has_date == Get(row, "connected_on") # ""
        connected_date == parse_connected_date(Get(row, "connected_on"), t1)
        current_time == utcnow(t2)
        added_at == IF has_date THEN connected_date ELSE current_time
        date_note == "Connected on LinkedIn: " \o strftime_d_b_Y(connected_date)
        notes2 == IF has_date /\ connected_date # current_time
                    THEN (IF notes1 # "" THEN Strip(date_note \o "\n" \o notes1) ELSE date_note)
                    ELSE notes1
    IN [contact |-> [name |-> name, email |-> email, company |-> company, title |-> title,
                     phone |-> phone, linkedinUrl |-> linkedin_url,
                     relationshipStrength |-> determine_relationship_strength("simple", row),
                     notes |-> notes2, tags |-> Tags, addedAt |-> added_at],
        errors |-> <<>>]

\* csv_service_enhanced.py; t2 is the clock reading of its utcnow() call
row_to_contact_enhanced(row, row_index, t2) ==
  IF ~is_valid_contact_row("enhanced", row)
    THEN [contact |-> NoContact,
          errors |-> <<"Row " \o IntToStr(row_index)
                         \o ": Missing both first name and last name - skipping">>]
  ELSE
    LET connected_date == connected_date_enhanced(row)
        current_time == utcnow(t2)
    IN [contact |-> [name |-> parse_name("enhanced", row),
                     email |-> Cleaned(row, "email"),
                     company |-> Cleaned(row, "company"),
                     title |-> Cleaned(row, "title"),
                     phone |-> Cleaned(row, "phone"),
                     linkedinUrl |-> clean_linkedin_url("enhanced", Get(row, "profile_url")),
                     relationshipStrength |-> determine_relationship_strength("enhanced", row),
                     notes |-> Cleaned(row, "notes"),
                     tags |-> Tags,
                     addedAt |-> IF connected_date # BadDate THEN connected_date ELSE current_time],
        errors |-> <<>>]

row_to_contact(v, row, row_index, t1, t2) ==
  IF v = "simple" THEN row_to_contact_simple(row, row_index, t1, t2)
  ELSE row_to_contact_enhanced(row, row_index, t2)

(***************************************************************************)
(* validate_contacts (the same code in both variants)                      *)
(***************************************************************************)
\* the loop body with its parts open to change: key is what the seen sets hold
\* for a value, email_continues and url_continues say whether the `continue`
\* after each duplicate diagnostic is there
validate_step_variant(st, contact, key(_), email_continues, url_continues) ==
  LET dupEmail == contact.email # "" /\ key(contact.email) \in st.seen_emails
      dupUrl == contact.linkedinUrl # "" /\ key(contact.linkedinUrl) \in st.seen_linkedin_urls
      stopAtEmail == dupEmail /\ email_continues
      stopAtUrl == ~stopAtEmail /\ dupUrl /\ url_continues
      errors1 == IF dupEmail
                   THEN Append(st.errors, "Duplicate email found: " \o contact.email)
                   ELSE st.errors
      errors2 == IF ~stopAtEmail /\ dupUrl
                   THEN Append(errors1, "Duplicate LinkedIn URL found: " \o contact.linkedinUrl)
                   ELSE errors1
  IN [valid_contacts |-> IF stopAtEmail \/ stopAtUrl THEN st.valid_contacts
                         ELSE Append(st.valid_contacts, contact),
      errors |-> errors2,
      seen_emails |-> IF contact.email # "" /\ ~stopAtEmail
                        THEN st.seen_emails \cup {key(contact.email)} ELSE st.seen_emails,
      seen_linkedin_urls |-> IF contact.linkedinUrl # "" /\ ~stopAtEmail /\ ~stopAtUrl
                               THEN st.seen_linkedin_urls \cup {key(contact.linkedinUrl)}
                               ELSE st.seen_linkedin_urls]

\* the seen sets hold the values as written, not lowered
validate_step_case_sensitive(st, contact) ==
  validate_step_variant(st, contact, LAMBDA s : s, TRUE, TRUE)

\* no `continue` after the duplicate-URL diagnostic
validate_step_keeps_url_duplicate(st, contact) ==
  validate_step_variant(st, contact, Lower, TRUE, FALSE)

\* no `continue` after the duplicate-email diagnostic
validate_step_keeps_email_duplicate(st, contact) ==
  validate_step_variant(st, contact, Lower, FALSE, TRUE)

\* one iteration of the loop over contacts; st holds the four locals
validate_step(st, contact) ==
  LET dupEmail == contact.email # "" /\ Lower(contact.email) \in st.seen_emails
      seen_emails1 == IF contact.email # "" /\ ~dupEmail
                        THEN st.seen_emails \cup {Lower(contact.email)}
                        ELSE st.seen_emails
      dupUrl == contact.linkedinUrl # "" /\ Lower(contact.linkedinUrl) \in st.seen_linkedin_urls
  IN IF dupEmail
       THEN [st EXCEPT !.errors = Append(@, "Duplicate email found: " \o contact.email)]
     ELSE IF dupUrl
       THEN [st EXCEPT !.seen_emails = seen_emails1,
                       !.errors = Append(@, "Duplicate LinkedIn URL found: " \o contact.linkedinUrl)]
     ELSE [st EXCEPT !.seen_emails = seen_emails1,
                     !.seen_linkedin_urls =
                        IF contact.linkedinUrl # ""
                          THEN @ \cup {Lower(contact.linkedinUrl)} ELSE @,
                     !.valid_contacts = Append(@, contact)]

RECURSIVE validate_loop(_, _)
\* the locals after the loop has run over the first k contacts
validate_loop(contacts, k) ==
  IF k = 0
    THEN [valid_contacts |-> <<>>, errors |-> <<>>, seen_emails |-> {}, seen_linkedin_urls |-> {}]
    ELSE validate_step(validate_loop(contacts, k - 1), contacts[k])

validate_contacts(contacts) ==
  LET st == validate_loop(contacts, Len(contacts))
  IN [valid_contacts |-> st.valid_contacts, errors |-> st.errors]

(***************************************************************************)
(* Reading the upload: bytes, lines, cells                                 *)
(***************************************************************************)
\* The bytes D0 CF 11 E0 of a compound document, one stand-in character per byte
\* (no text of the model holds these characters).
OleMagic == "#%&!"

Min(a, b) == IF a < b THEN a ELSE b

\* s[:n]
Prefix(s, n) == SubSeq(s, 1, Min(n, Len(s)))

\* The three bytes EF BB BF of a UTF-8 byte-order mark, as one stand-in character
\* of a buffer, and the character U+FEFF they encode, as one stand-in character
\* of a text. U+FEFF is no whitespace: str.strip() and str.split() leave it alone.
BomBytes == "^"
BomChar == "~"

\* the text of a buffer that is valid UTF-8: the byte-order mark encodes U+FEFF
\* and every other byte of the model's buffers is ASCII
utf8_text(content) ==
  MapChars(content, [c \in CharsOf(content) |-> IF c = BomBytes THEN BomChar ELSE c])

\* content.decode('utf-8') and its fallbacks utf-8-sig, latin-1, cp1252: the first
\* codec that does not raise gives the text. utf-8 raises on the compound-document
\* bytes only; utf-8-sig, which would drop a leading mark, raises on them as well;
\* latin-1 maps every byte one to one and never raises.
decode(content) ==
  IF CharsOf(content) \cap {"#", "%", "!"} = {} THEN utf8_text(content)
  ELSE content

\* content.decode('utf-8', errors='ignore'): D0 CF and E0 are dropped as malformed,
\* the control byte 11 survives
decode_ignore(content) ==
  utf8_text(MapChars(content, [c \in CharsOf(content) |-> IF c \in {"#", "%", "!"} THEN "" ELSE c]))

\* next(csv.reader([line], delimiter=d), []) for a line without quote characters
csv_row(line, d) == IF line = "" THEN <<>> ELSE Split(line, d)

\* the indices of s, in order, whose element satisfies Test
Indices(s, Test(_)) == SelectSeq([i \in 1..Len(s) |-> i], LAMBDA i : Test(s[i]))

\* "Numbers"/"Excel" rejection, the same test in both variants; "" when the buffer passes
format_error(v, content) ==
  IF StartsWith(content, "PK") \/ Contains(Prefix(content, 100), "Numbers")
    THEN IF v = "simple"
           THEN "Numbers files (.numbers) are not supported. Please export your Numbers file as CSV first."
           ELSE "Numbers files (.numbers) are not supported. Please export as CSV first."
  ELSE IF StartsWith(content, "PK") \/ StartsWith(content, OleMagic)
    THEN IF v = "simple"
           THEN "Excel files are not yet supported. Please save your Excel file as CSV first."
           ELSE "Excel files are not yet supported. Please save as CSV first."
  ELSE ""

(***************************************************************************)
(* Delimiter detection                                                     *)
(***************************************************************************)
\* csv_service_simple.py parse_csv_content: the delimiter giving the first row of
\* text_content[:1000] the most cells, the earlier candidate on a tie
sniff_delimiter(text_content) ==
  LET first_line == Split(Prefix(text_content, 1000), "\n")[1]
      cols(d) == Len(csv_row(first_line, d))
  IN IF cols(",") >= cols(";") /\ cols(",") >= cols("\t") /\ cols(",") > 0 THEN ","
     ELSE IF cols(";") >= cols("\t") /\ cols(";") > 0 THEN ";"
     ELSE IF cols("\t") > 0 THEN "\t"
     ELSE ","

\* csv_service_enhanced.py detect_delimiter: one pass of the inner loop over the
\* sample lines for delimiter d; acc holds total_columns, consistent_columns,
\* first_row_columns (-1 for None) and valid_rows
delimiter_line(acc, line, d) ==
  LET row == csv_row(line, d)
      low == Lower(line)
      counted == Len(SelectSeq(row, LAMBDA cell : Strip(cell) # ""))
      columns == IF \E h \in {"first name", "last name", "email", "company"} : Contains(low, h)
                   THEN counted * 2 ELSE counted
  IN IF Strip(line) = "" THEN acc
     ELSE IF Len(row) <= 2
             /\ \E w \in {"notes:", "when exporting", "connections"} : Contains(low, w)
       THEN acc
     ELSE [total_columns |-> acc.total_columns + columns,
           consistent_columns |->
             acc.consistent_columns
             /\ (acc.first_row_columns = -1
                 \/ ~(columns - acc.first_row_columns > 3 \/ acc.first_row_columns - columns > 3)),
           first_row_columns |-> IF acc.first_row_columns = -1 THEN columns ELSE acc.first_row_columns,
           valid_rows |-> acc.valid_rows + 1]

RECURSIVE delimiter_scan(_, _, _)
delimiter_scan(sample_lines, k, d) ==
  IF k = 0
    THEN [total_columns |-> 0, consistent_columns |-> TRUE, first_row_columns |-> -1, valid_rows |-> 0]
    ELSE delimiter_line(delimiter_scan(sample_lines, k - 1, d), sample_lines[k], d)

\* twice the score, so that the factor 0.5 stays an integer
delimiter_score2(content, d) ==
  LET sample_lines == Prefix(Split(content, "\n"), 15)
      acc == delimiter_scan(sample_lines, Len(sample_lines), d)
  IN acc.total_columns * (IF acc.consistent_columns THEN 2 ELSE 1) * acc.valid_rows

RECURSIVE best_delimiter(_, _, _, _)
\* the loop over the candidates: a later one wins only with a strictly higher score
best_delimiter(content, candidates, best, max_columns) ==
  IF candidates = <<>> THEN best
  ELSE LET score == delimiter_score2(content, Head(candidates))
       IN IF score > max_columns
            THEN best_delimiter(content, Tail(candidates), Head(candidates), score)
            ELSE best_delimiter(content, Tail(candidates), best, max_columns)

detect_delimiter(content) == best_delimiter(content, <<",", ";", "\t", "|">>, ",", 0)

(***************************************************************************)
(* Header location                                                         *)
(***************************************************************************)
\* [cell.lower().strip() for cell in row if cell.strip()]
cleaned_cells(row) ==
  LET kept == SelectSeq(row, LAMBDA cell : Strip(cell) # "")
  IN [i \in 1..Len(kept) |-> Strip(Lower(kept[i]))]

AnyCell(cells, Test(_)) == \E i \in 1..Len(cells) : Test(cells[i])

\* csv_service_simple.py find_header_row: the test of its first loop
looks_like_header(line, d) ==
  LET cleaned_headers == cleaned_cells(csv_row(line, d))
      has_required ==
        \A req \in {"first name", "last name", "url"} :
          AnyCell(cleaned_headers, LAMBDA h : Contains(h, req))
      has_linkedin_pattern ==
        /\ Len(cleaned_headers) >= 5
        /\ AnyCell(cleaned_headers, LAMBDA h : Contains(h, "first") /\ Contains(h, "name"))
        /\ AnyCell(cleaned_headers, LAMBDA h : Contains(h, "last") /\ Contains(h, "name"))
        /\ AnyCell(cleaned_headers, LAMBDA h : Contains(h, "url") \/ Contains(h, "profile"))
  IN Strip(line) # "" /\ csv_row(line, d) # <<>> /\ (has_required \/ has_linkedin_pattern)

\* csv_service_simple.py find_header_row; index -1 and row <<>> when nothing is found
find_header_row(lines, d) ==
  LET hits == Indices(lines, LAMBDA line : looks_like_header(line, d))
      nonblank == Indices(lines, LAMBDA line : Strip(line) # "" /\ csv_row(line, d) # <<>>)
  IN IF hits # <<>> THEN [index |-> hits[1] - 1, row |-> csv_row(lines[hits[1]], d)]
     ELSE IF nonblank # <<>> THEN [index |-> nonblank[1] - 1, row |-> csv_row(lines[nonblank[1]], d)]
     ELSE [index |-> -1, row |-> <<>>]

\* csv_service_enhanced.py detect_metadata_rows: header_matches of one line
header_matches(line, d) ==
  LET cleaned_row == cleaned_cells(csv_row(line, d))
  IN Cardinality({ h \in {"first name", "last name", "url", "email address", "company", "position"} :
                     AnyCell(cleaned_row, LAMBDA cell : Contains(cell, h)) })

\* csv_service_enhanced.py detect_metadata_rows: "Check if this is metadata"
is_metadata(line, d) ==
  LET cleaned_row == cleaned_cells(csv_row(line, d))
      metadata_indicators == {"connections", "notes", "total", "exported", "linkedin",
                              "data", "export", "privacy", "settings"}
  IN /\ Len(cleaned_row) <= 2
     /\ \E indicator \in metadata_indicators : Contains(Join(cleaned_row, " "), indicator)

\* csv_service_enhanced.py detect_metadata_rows: a 0-based line index (the lines the
\* first loop passes over as metadata are never header lines, so they change nothing)
detect_metadata_rows(lines, d) ==
  LET window == Prefix(lines, 10)
      hits == Indices(window, LAMBDA line : Strip(line) # "" /\ header_matches(line, d) >= 3)
      nonblank == Indices(lines, LAMBDA line : Strip(line) # "")
  IN IF hits # <<>> THEN hits[1] - 1
     ELSE IF nonblank # <<>> THEN nonblank[1] - 1
     ELSE 0

(***************************************************************************)
(* Data lines to normalized rows                                           *)
(***************************************************************************)
\* the cell values both parsers blank out
null_markers(v) ==
  IF v = "simple" THEN {"", "null", "none", "n/a", "na"}
  ELSE {"", "null", "none", "n/a", "na", "-"}

\* "Clean up the value"
clean_value(v, value) ==
  IF value = "" THEN ""
  ELSE IF Lower(Strip(value)) \in null_markers(v) THEN "" ELSE Strip(value)

\* the value of column j (1-based) of a data line, cleaned
column_value(v, row_values, j) ==
  clean_value(v, IF j <= Len(row_values) THEN row_values[j] ELSE "")

\* normalized_row: each normalized header holds the value of the last column
\* carrying it (dict assignment overwrites)
normalized_row(v, normalized_fieldnames, row_values) ==
  [key \in { normalized_fieldnames[j] : j \in 1..Len(normalized_fieldnames) } |->
     LET last == CHOOSE j \in 1..Len(normalized_fieldnames) :
                   /\ normalized_fieldnames[j] = key
                   /\ \A k \in (j + 1)..Len(normalized_fieldnames) : normalized_fieldnames[k] # key
     IN column_value(v, row_values, last)]

has_data(v, normalized_fieldnames, row_values) ==
  \E j \in 1..Len(normalized_fieldnames) : column_value(v, row_values, j) # ""

\* the rows a list of data lines yields, in order: blank lines and rows without
\* data are passed over
rows_of(v, normalized_fieldnames, data_lines, d) ==
  LET usable == SelectSeq(data_lines,
                  LAMBDA line : /\ Strip(line) # ""
                                /\ has_data(v, normalized_fieldnames, csv_row(line, d)))
  IN [i \in 1..Len(usable) |-> normalized_row(v, normalized_fieldnames, csv_row(usable[i], d))]

normalize_all(v, header_row) ==
  [j \in 1..Len(header_row) |-> normalize_field_name(v, header_row[j])]

\* csv_service_simple.py parse_csv_content: (rows, errors), with the normalized
\* header names the rows were built from
parse_csv_content(content) ==
  LET text_content == decode(content)
      lines == Split(Strip(text_content), "\n")
      best == sniff_delimiter(text_content)
      header == find_header_row(lines, best)
      names == normalize_all("simple", header.row)
      data_lines == SubSeq(lines, header.index + 2, Len(lines))
      fail(msg) == [rows |-> <<>>, errors |-> <<msg>>, fieldnames |-> <<>>]
  IN IF format_error("simple", content) # "" THEN fail(format_error("simple", content))
     ELSE IF ~\E d \in {",", ";", "\t"} : Contains(text_content, d)
       THEN fail("File does not appear to be a valid CSV format")
     ELSE IF header.index = -1 \/ header.row = <<>>
       THEN fail("No valid header row found in CSV file")
     ELSE [rows |-> rows_of("simple", names, data_lines, best), errors |-> <<>>,
           fieldnames |-> names]

RECURSIVE chunks_from(_, _, _, _, _)
\* csv_service_enhanced.py parse_csv_content_streaming, "Process data rows in
\* chunks": the items yielded from data line chunk_start (0-based) on
chunks_from(names, data_lines, d, chunk_size, chunk_start) ==
  IF chunk_start >= Len(data_lines) THEN <<>>
  ELSE LET chunk_end == Min(chunk_start + chunk_size, Len(data_lines))
       IN <<[chunk_rows |-> rows_of("enhanced", names,
                                    SubSeq(data_lines, chunk_start + 1, chunk_end), d),
             chunk_errors |-> <<>>,
             is_final_chunk |-> chunk_end >= Len(data_lines)]>>
          \o chunks_from(names, data_lines, d, chunk_size, chunk_end)

\* csv_service_enhanced.py parse_csv_content_streaming: the items the generator
\* yields, in order
parse_csv_content_streaming(content, chunk_size) ==
  LET text_content == decode(content)
      lines == Split(Strip(text_content), "\n")
      delimiter == detect_delimiter(text_content)
      header_line_index == detect_metadata_rows(lines, delimiter)
      header_row == csv_row(lines[header_line_index + 1], delimiter)
      names == normalize_all("enhanced", header_row)
      fail(msg) == <<[chunk_rows |-> <<>>, chunk_errors |-> <<msg>>, is_final_chunk |-> TRUE]>>
  IN IF format_error("enhanced", content) # "" THEN fail(format_error("enhanced", content))
     ELSE IF header_line_index >= Len(lines) THEN fail("No valid header row found in CSV file")
     ELSE IF header_row = <<>> THEN fail("Empty header row found")
     ELSE chunks_from(names, SubSeq(lines, header_line_index + 2, Len(lines)), delimiter,
                      chunk_size, 0)

(***************************************************************************)
(* process_csv_file_async: what is computed around the chunk loop          *)
(***************************************************************************)
\* chunk_size of process_csv_file_async (1000 in both variants), scaled to the
\* row counts of the model
ChunkSize == 1

RECURSIVE slices_from(_, _, _)
\* csv_service_simple.py: rows[chunk_start:chunk_end] for each chunk_start of
\* range(0, total_rows, chunk_size), in the shape of the streaming items
slices_from(rows, chunk_size, chunk_start) ==
  IF chunk_start >= Len(rows) THEN <<>>
  ELSE LET chunk_end == Min(chunk_start + chunk_size, Len(rows))
       IN <<[chunk_rows |-> SubSeq(rows, chunk_start + 1, chunk_end),
             chunk_errors |-> <<>>,
             is_final_chunk |-> chunk_end >= Len(rows)]>>
          \o slices_from(rows, chunk_size, chunk_end)

RECURSIVE Concat(_)
\* the lists of a list, joined in order
Concat(lists) == IF lists = <<>> THEN <<>> ELSE Head(lists) \o Concat(Tail(lists))

RECURSIVE Unique(_)
\* the elements of a list in order of first occurrence (the key order of a dict)
Unique(s) ==
  IF s = <<>> THEN <<>>
  ELSE LET init == Unique(SubSeq(s, 1, Len(s) - 1))
           last == s[Len(s)]
       IN IF \E i \in 1..Len(init) : init[i] = last THEN init ELSE Append(init, last)

timeout_message(v, timeout_seconds, n_contacts, n_rows) ==
  IF v = "simple"
    THEN "Processing timed out after " \o IntToStr(timeout_seconds) \o " seconds. Processed "
         \o IntToStr(n_contacts) \o " of " \o IntToStr(n_rows) \o " rows."
    ELSE "Processing timed out after " \o IntToStr(timeout_seconds) \o " seconds. Processed "
         \o IntToStr(n_contacts) \o " contacts so far."

\* csv_service_simple.py: the return of the `except asyncio.TimeoutError` handler
wait_for_timeout_result(timeout_seconds) ==
  [raised |-> FALSE, contacts |-> <<>>, total_rows |-> 0,
   errors |-> <<"CSV processing timed out after " \o IntToStr(timeout_seconds)
                 \o " seconds. Please try with a smaller file or contact support.">>]

\* csv_service_enhanced.py "Final validation": the first of the first ten lines
\* that splits into more than two cells, <<>> when there is none
detected_headers(content) ==
  LET lines == Prefix(Split(Strip(decode_ignore(content)), "\n"), 10)
      delim(line) == IF Contains(line, ",") THEN "," ELSE IF Contains(line, ";") THEN ";" ELSE "\t"
      hits == Indices(lines, LAMBDA line :
                /\ Strip(line) # ""
                /\ (Contains(line, ",") \/ Contains(line, ";") \/ Contains(line, "\t"))
                /\ Len(csv_row(line, delim(line))) > 2)
  IN IF hits = <<>> THEN <<>> ELSE csv_row(lines[hits[1]], delim(lines[hits[1]]))

no_contacts_message(content) ==
  LET h == detected_headers(content)
  IN IF h = <<>> THEN "No valid contacts found. Could not detect CSV headers."
     ELSE "No valid contacts found. Detected headers: " \o Join(Prefix(h, 7), ", ")
          \o (IF Len(h) > 7 THEN " (and " \o IntToStr(Len(h) - 7) \o " more)" ELSE "")

\* the return without the "No valid contacts found" message
final_result_without_message(v, content, contacts, all_errors, fieldnames, total_rows, total_rows_processed) ==
  [raised |-> FALSE, contacts |-> contacts,
   total_rows |-> IF v = "simple" THEN total_rows ELSE total_rows_processed,
   errors |-> all_errors]

\* what process_csv_file_async returns once its loop has ended
final_result(v, content, contacts, all_errors, fieldnames, total_rows, total_rows_processed) ==
  IF v = "simple"
    THEN [raised |-> FALSE, contacts |-> contacts, total_rows |-> total_rows,
          errors |-> IF contacts = <<>>
                       THEN Append(all_errors, "No valid contacts found. Detected headers: "
                                                 \o Join(Unique(fieldnames), ", "))
                       ELSE all_errors]
    ELSE [raised |-> FALSE, contacts |-> contacts, total_rows |-> total_rows_processed,
          errors |-> IF contacts = <<>> /\ total_rows_processed = 0
                       THEN Append(all_errors, no_contacts_message(content))
                       ELSE all_errors]

(***************************************************************************)
(* The inputs of the model                                                 *)
(***************************************************************************)
MaxBanner == 3
MaxRows == 2
MaxTimeout == 1
MaxElapsed == 2
MaxContacts == 3
MaxRowIndex == 2
MaxClock == 2

\* all lists over S of length at most n
SeqsUpTo(S, n) == UNION { [1..k -> S] : k \in 0..n }

CanonicalHeader == "First Name,Last Name,URL,Email Address,Company,Position,Connected On"

\* lines an export tool puts before the table
BannerLines == {"Notes:", "Exported;by;LinkedIn"}

JohnLine == "John,Doe,https://linkedin.com/in/jd,jd@x.com,Acme,Engineer,25 Jun 2023"
\* another person on John's profile URL
BobLine == "Bob,Ray,https://LinkedIn.com/in/JD,bob@x.com,Acme,CTO,2024-01-01"
\* a third person with an address and a profile of her own
AnnLine == "Ann,Lee,annlee,Ann@X.com,Beta,CEO,01 Jan 2024"
\* a row without any of the five fields the validity gate looks at
TitleOnlyLine == ",,,,,Engineer,"

\* a person whose company has the word 'Numbers' in its name
NumbersLine == "Jo,Li,jo,jo@x.com,Numbers Ltd,CEO,01 Jan 2024"

DataLines == {JohnLine, BobLine, AnnLine, TitleOnlyLine}

Build(banner, data) == Join(banner \o <<CanonicalHeader>> \o data, "\n")

\* a table of another tool: no line of it has the header names of a LinkedIn export
PlainTable == <<"Name,Email", "Johnny Doe,jd@x.com">>

\* a table with two columns for the email address, each row filling one of them
CollidingTable == <<"Name,Email,E-mail", "Johnny Doe,jd@x.com,", "Ann Lee,,Ann@X.com">>

Contents ==
  { Build(b, <<JohnLine>>) : b \in SeqsUpTo(BannerLines, MaxBanner) }
    \cup { Build(<<>>, d) : d \in SeqsUpTo(DataLines, MaxRows) }
    \cup { m \o Build(<<>>, <<JohnLine>>) : m \in {"PK", OleMagic} }
    \cup { Join(b \o PlainTable, "\n") : b \in {<<>>, <<"Notes:">>} }
    \cup {Join(CollidingTable, "\n"), Build(<<>>, <<NumbersLine>>)}
    \cup { BomBytes \o Build(<<>>, d) : d \in {<<>>, <<JohnLine>>, <<JohnLine, AnnLine>>} }
    \cup {"PK", ""}

(***************************************************************************)
(* State                                                                   *)
(***************************************************************************)
VARIABLES
  \* one run of process_csv_file_async, and main.py's validate_contacts after it
  variant,               \* which CSVService runs
  content,               \* the uploaded bytes
  timeout_seconds,       \* the timeout argument
  pc,                    \* where the run stands
  elapsed,               \* time.time() - start_time, in whole seconds
  pending,               \* the chunks still to come
  chunk,                 \* the chunk in hand: chunk_rows, chunk_errors, is_final_chunk
  row_i,                 \* 1-based position of the next row of the chunk
  chunk_contacts,
  contacts,
  all_errors,
  fieldnames,            \* simple: the normalized header names of the parsed rows
  total_rows,            \* simple: len(rows)
  total_rows_processed,  \* rows of the chunks completed so far
  result,                \* what the run returned
  validated,             \* what validate_contacts returned for result.contacts
  timed_out,             \* whether the timeout ended the run (the break, or wait_for's TimeoutError)
  \* validate_contacts on its own
  vc_pc, vc_input, vc_first, vc_second,
  \* row_to_contact on its own
  rc_pc, rc_variant, rc_row, rc_index, rc_result,
  \* normalize_field_name on its own
  hd_pc, hd_variant, hd_key, hd_spelling, hd_result,
  \* two runs of process_csv_file_async on one CSVService instance
  p_variant,             \* the class of the shared instance
  p_runs,                \* the locals of each run
  \* the suspension points of one run, its rows counted and not looked at
  y_pc, y_variant,
  y_callback,            \* whether a progress_callback was passed
  y_total,               \* the number of rows of the input
  y_done,                \* rows of the chunks completed so far
  y_len,                 \* len(chunk_rows) of the chunk in hand
  y_i,                   \* rows of the chunk in hand mapped so far
  y_run                  \* rows mapped since the run last suspended

runVars == <<variant, content, timeout_seconds, pc, elapsed, pending, chunk, row_i,
             chunk_contacts, contacts, all_errors, fieldnames, total_rows,
             total_rows_processed, result, validated, timed_out>>
vcVars == <<vc_pc, vc_input, vc_first, vc_second>>
rcVars == <<rc_pc, rc_variant, rc_row, rc_index, rc_result>>
hdVars == <<hd_pc, hd_variant, hd_key, hd_spelling, hd_result>>
prVars == <<p_variant, p_runs>>
yVars == <<y_pc, y_variant, y_callback, y_total, y_done, y_len, y_i, y_run>>
vars == <<runVars, vcVars, rcVars, hdVars, prVars, yVars>>

NoChunk == [chunk_rows |-> <<>>, chunk_errors |-> <<>>, is_final_chunk |-> FALSE]
NoResult == [raised |-> FALSE, contacts |-> <<>>, total_rows |-> 0, errors |-> <<>>]
NoValidation == [valid_contacts |-> <<>>, errors |-> <<>>]

\* the run part of the state when no run is modelled
RunIdle ==
  /\ variant = "enhanced" /\ content = "" /\ timeout_seconds = 0 /\ pc = "idle"
  /\ elapsed = 0 /\ pending = <<>> /\ chunk = NoChunk /\ row_i = 1
  /\ chunk_contacts = <<>> /\ contacts = <<>> /\ all_errors = <<>> /\ fieldnames = <<>>
  /\ total_rows = 0 /\ total_rows_processed = 0 /\ result = NoResult
  /\ validated = NoValidation /\ timed_out = FALSE

VcIdle == vc_pc = "idle" /\ vc_input = <<>> /\ vc_first = NoValidation /\ vc_second = NoValidation

RcIdle ==
  /\ rc_pc = "idle" /\ rc_variant = "enhanced" /\ rc_row = <<>> /\ rc_index = 1
  /\ rc_result = [contact |-> NoContact, errors |-> <<>>]

HdIdle ==
  hd_pc = "idle" /\ hd_variant = "enhanced" /\ hd_key = "" /\ hd_spelling = "" /\ hd_result = ""

PrIdle == p_variant = "enhanced" /\ p_runs = <<>>

YIdle ==
  /\ y_pc = "idle" /\ y_variant = "enhanced" /\ y_callback = FALSE /\ y_total = 0
  /\ y_done = 0 /\ y_len = 0 /\ y_i = 0 /\ y_run = 0

(***************************************************************************)
(* process_csv_file_async and the import endpoint's validate_contacts      *)
(***************************************************************************)
Init ==
  /\ variant \in Variants
  /\ content \in Contents
  /\ timeout_seconds \in 0..MaxTimeout
  /\ pc = "start"
  /\ elapsed = 0
  /\ pending = <<>> /\ chunk = NoChunk /\ row_i = 1
  /\ chunk_contacts = <<>> /\ contacts = <<>> /\ all_errors = <<>> /\ fieldnames = <<>>
  /\ total_rows = 0 /\ total_rows_processed = 0
  /\ result = NoResult /\ validated = NoValidation /\ timed_out = FALSE
  /\ VcIdle /\ RcIdle /\ HdIdle /\ PrIdle /\ YIdle

\* the timeout test both loops make: time.time() - start_time > timeout_seconds
Expired == elapsed > timeout_seconds

\* simple: asyncio.wait_for(parse_task, timeout) with a timeout that is not positive
\* cancels the task before it has run and raises TimeoutError, which the handler
\* at the end of the method turns into a result
ParseTimeout ==
  /\ pc = "start" /\ variant = "simple" /\ timeout_seconds <= 0
  /\ result' = wait_for_timeout_result(timeout_seconds)
  /\ pc' = "returned"
  /\ timed_out' = TRUE
  /\ UNCHANGED <<variant, content, timeout_seconds, elapsed, pending, chunk, row_i,
                 chunk_contacts, contacts, all_errors, fieldnames, total_rows,
                 total_rows_processed, validated, vcVars, rcVars,
                 hdVars, prVars, yVars>>

\* simple: the parse task runs to its end in one step (it never suspends); with
\* no rows the method returns at once
ParseSimple ==
  /\ pc = "start" /\ variant = "simple" /\ timeout_seconds > 0
  /\ LET p == parse_csv_content(content)
     IN IF p.rows = <<>>
          THEN /\ result' = [raised |-> FALSE, contacts |-> <<>>, total_rows |-> 0,
                             errors |-> IF p.errors # <<>> THEN p.errors
                                        ELSE <<"No valid contacts found.">>]
               /\ pc' = "returned"
               /\ UNCHANGED <<pending, all_errors, fieldnames, total_rows>>
          ELSE /\ pending' = slices_from(p.rows, ChunkSize, 0)
               /\ all_errors' = p.errors
               /\ fieldnames' = p.fieldnames
               /\ total_rows' = Len(p.rows)
               /\ pc' = "fetch"
               /\ UNCHANGED result
  /\ UNCHANGED <<variant, content, timeout_seconds, elapsed, chunk, row_i, chunk_contacts,
                 contacts, total_rows_processed, validated, timed_out, vcVars, rcVars,
                 hdVars, prVars, yVars>>

\* enhanced: the loop starts the streaming generator
ParseStreaming ==
  /\ pc = "start" /\ variant = "enhanced"
  /\ pending' = parse_csv_content_streaming(content, ChunkSize)
  /\ pc' = "fetch"
  /\ UNCHANGED <<variant, content, timeout_seconds, elapsed, chunk, row_i, chunk_contacts,
                 contacts, all_errors, fieldnames, total_rows, total_rows_processed,
                 result, validated, timed_out, vcVars, rcVars,
                 hdVars, prVars, yVars>>

\* the head of the loop: the next chunk, or the end of the loop when none is left
Fetch ==
  /\ pc = "fetch"
  /\ IF pending = <<>>
       THEN pc' = "final" /\ UNCHANGED <<pending, chunk>>
       ELSE pc' = "check" /\ chunk' = Head(pending) /\ pending' = Tail(pending)
  /\ UNCHANGED <<variant, content, timeout_seconds, elapsed, row_i, chunk_contacts,
                 contacts, all_errors, fieldnames, total_rows, total_rows_processed,
                 result, validated, timed_out, vcVars, rcVars,
                 hdVars, prVars, yVars>>

\* the loop is left on the timeout without a diagnostic
TimeoutBreakSilent ==
  /\ pc = "check" /\ Expired
  /\ pc' = "final"
  /\ timed_out' = TRUE
  /\ UNCHANGED <<variant, content, timeout_seconds, elapsed, pending, chunk, row_i,
                 chunk_contacts, contacts, all_errors, fieldnames, total_rows,
                 total_rows_processed, result, validated, vcVars, rcVars,
                 hdVars, prVars, yVars>>

\* the timeout diagnostic is added and the `break` is missing: the chunk in hand
\* is taken up all the same
TimeoutBreakGoesOn ==
  /\ pc = "check" /\ Expired
  /\ all_errors' = Append(all_errors,
                     timeout_message(variant, timeout_seconds, Len(contacts), total_rows))
  /\ pc' = "rows"
  /\ row_i' = 1
  /\ chunk_contacts' = <<>>
  /\ timed_out' = TRUE
  /\ UNCHANGED <<variant, content, timeout_seconds, elapsed, pending, chunk, contacts,
                 fieldnames, total_rows, total_rows_processed, result, validated,
                 vcVars, rcVars, hdVars, prVars, yVars>>

\* "Check timeout": the loop is left with the chunk in hand unprocessed
TimeoutBreak ==
  /\ pc = "check" /\ Expired
  /\ all_errors' = Append(all_errors,
                     timeout_message(variant, timeout_seconds, Len(contacts), total_rows))
  /\ pc' = "final"
  /\ timed_out' = TRUE
  /\ UNCHANGED <<variant, content, timeout_seconds, elapsed, pending, chunk, row_i,
                 chunk_contacts, contacts, fieldnames, total_rows, total_rows_processed,
                 result, validated, vcVars, rcVars,
                 hdVars, prVars, yVars>>

\* the chunk is taken up; enhanced adds its errors and leaves the loop on an error chunk
StartChunk ==
  /\ pc = "check" /\ ~Expired
  /\ all_errors' = IF variant = "enhanced" THEN all_errors \o chunk.chunk_errors ELSE all_errors
  /\ pc' = IF variant = "enhanced" /\ chunk.chunk_rows = <<>> /\ chunk.chunk_errors # <<>>
              /\ chunk.is_final_chunk
             THEN "final" ELSE "rows"
  /\ row_i' = 1
  /\ chunk_contacts' = <<>>
  /\ UNCHANGED <<variant, content, timeout_seconds, elapsed, pending, chunk, contacts,
                 fieldnames, total_rows, total_rows_processed, result, validated,
                 timed_out, vcVars, rcVars,
                 hdVars, prVars, yVars>>

\* the row's diagnostic carries its index within the chunk, not within the file
MapRowChunkLocalIndex ==
  /\ pc = "rows" /\ row_i <= Len(chunk.chunk_rows)
  /\ \E t2 \in 1..MaxClock :
       LET r == row_to_contact(variant, chunk.chunk_rows[row_i], row_i, 1, t2)
       IN /\ chunk_contacts' = IF r.contact # NoContact
                                 THEN Append(chunk_contacts, r.contact) ELSE chunk_contacts
          /\ all_errors' = all_errors \o r.errors
  /\ row_i' = row_i + 1
  /\ UNCHANGED <<variant, content, timeout_seconds, pc, elapsed, pending, chunk, contacts,
                 fieldnames, total_rows, total_rows_processed, result, validated,
                 timed_out, vcVars, rcVars, hdVars, prVars, yVars>>

\* one pass of the loop over the rows of the chunk; the clock may or may not move
\* between the utcnow() calls of row_to_contact
MapRow ==
  /\ pc = "rows" /\ row_i <= Len(chunk.chunk_rows)
  /\ \E t2 \in 1..MaxClock :
       LET r == row_to_contact(variant, chunk.chunk_rows[row_i],
                               total_rows_processed + row_i, 1, t2)
       IN /\ chunk_contacts' = IF r.contact # NoContact
                                 THEN Append(chunk_contacts, r.contact) ELSE chunk_contacts
          /\ all_errors' = all_errors \o r.errors
  /\ row_i' = row_i + 1
  /\ UNCHANGED <<variant, content, timeout_seconds, pc, elapsed, pending, chunk, contacts,
                 fieldnames, total_rows, total_rows_processed, result, validated,
                 timed_out, vcVars, rcVars,
                 hdVars, prVars, yVars>>

\* the chunk's contacts take the place of those collected so far
EndChunkKeepsLastChunk ==
  /\ pc = "rows" /\ row_i > Len(chunk.chunk_rows)
  /\ contacts' = chunk_contacts
  /\ total_rows_processed' = total_rows_processed + Len(chunk.chunk_rows)
  /\ pc' = IF chunk.is_final_chunk THEN "final" ELSE "fetch"
  /\ UNCHANGED <<variant, content, timeout_seconds, elapsed, pending, chunk, row_i,
                 chunk_contacts, all_errors, fieldnames, total_rows, result, validated,
                 timed_out, vcVars, rcVars, hdVars, prVars, yVars>>

\* after the last row: the chunk's contacts are added; the loop goes on unless
\* this was the final chunk
EndChunk ==
  /\ pc = "rows" /\ row_i > Len(chunk.chunk_rows)
  /\ contacts' = contacts \o chunk_contacts
  /\ total_rows_processed' = total_rows_processed + Len(chunk.chunk_rows)
  /\ pc' = IF chunk.is_final_chunk THEN "final" ELSE "fetch"
  /\ UNCHANGED <<variant, content, timeout_seconds, elapsed, pending, chunk, row_i,
                 chunk_contacts, all_errors, fieldnames, total_rows, result, validated,
                 timed_out, vcVars, rcVars,
                 hdVars, prVars, yVars>>

\* after the loop: the no-contacts message where due, and the return
Finish ==
  /\ pc = "final"
  /\ result' = final_result(variant, content, contacts, all_errors, fieldnames,
                            total_rows, total_rows_processed)
  /\ pc' = "returned"
  /\ UNCHANGED <<variant, content, timeout_seconds, elapsed, pending, chunk, row_i,
                 chunk_contacts, contacts, all_errors, fieldnames, total_rows,
                 total_rows_processed, validated, timed_out, vcVars, rcVars,
                 hdVars, prVars, yVars>>

\* main.py import_contacts_from_csv: without contacts the request is rejected,
\* otherwise the contacts are validated and deduplicated
Validate ==
  /\ pc = "returned" /\ result.contacts # <<>>
  /\ validated' = validate_contacts(result.contacts)
  /\ pc' = "validated"
  /\ UNCHANGED <<variant, content, timeout_seconds, elapsed, pending, chunk, row_i,
                 chunk_contacts, contacts, all_errors, fieldnames, total_rows,
                 total_rows_processed, result, timed_out, vcVars, rcVars,
                 hdVars, prVars, yVars>>

\* a second passes. The clock is read only by the timeout test at the head of the
\* loop, so it is enough to let it move while the loop waits for its next chunk.
Tick ==
  /\ pc = "fetch" /\ elapsed < MaxElapsed
  /\ elapsed' = elapsed + 1
  /\ UNCHANGED <<variant, content, timeout_seconds, pc, pending, chunk, row_i,
                 chunk_contacts, contacts, all_errors, fieldnames, total_rows,
                 total_rows_processed, result, validated, timed_out, vcVars, rcVars,
                 hdVars, prVars, yVars>>

Next ==
  \/ ParseTimeout \/ ParseSimple \/ ParseStreaming \/ Fetch \/ TimeoutBreak \/ StartChunk
  \/ MapRow \/ EndChunk \/ Finish \/ Validate \/ Tick

Spec == Init /\ [][Next]_vars

(***************************************************************************)
(* validate_contacts on its own: every list of candidates up to            *)
(* MaxContacts, deduplicated once and then once more on its own output     *)
(***************************************************************************)
\* a contact as row_to_contact builds it, with the three fields that tell
\* candidates apart
Candidate(name, email, url) ==
  [name |-> name, email |-> email, company |-> None, title |-> None, phone |-> None,
   linkedinUrl |-> url, relationshipStrength |-> "weak", notes |-> None, tags |-> Tags,
   addedAt |-> utcnow(1)]

DedupEmails == {None, "a@x.com", "A@x.com", "b@x.com"}
DedupUrls == {None, "https://linkedin.com/in/u", "https://linkedin.com/in/U"}

\* one person with every email and profile URL, and a second person on two of
\* the emails
DedupCandidates ==
  { Candidate("Ann Lee", e, u) : e \in DedupEmails, u \in DedupUrls }
    \cup { Candidate("Bob Ray", e, None) : e \in {"a@x.com", "A@x.com"} }

InitDedup ==
  /\ RunIdle /\ RcIdle /\ HdIdle /\ PrIdle /\ YIdle
  /\ vc_pc = "ready"
  /\ vc_input \in SeqsUpTo(DedupCandidates, MaxContacts)
  /\ vc_first = NoValidation /\ vc_second = NoValidation

\* main.py: valid_contacts, validation_errors = csv_service.validate_contacts(contacts)
DedupFirst ==
  /\ vc_pc = "ready"
  /\ vc_first' = validate_contacts(vc_input)
  /\ vc_pc' = "first"
  /\ UNCHANGED <<vc_input, vc_second, runVars, rcVars, hdVars, prVars, yVars>>

\* validate_contacts called again on the list it kept
DedupSecond ==
  /\ vc_pc = "first"
  /\ vc_second' = validate_contacts(vc_first.valid_contacts)
  /\ vc_pc' = "second"
  /\ UNCHANGED <<vc_input, vc_first, runVars, rcVars, hdVars, prVars, yVars>>

NextDedup == DedupFirst \/ DedupSecond

SpecDedup == InitDedup /\ [][NextDedup]_vars

(***************************************************************************)
(* row_to_contact on its own: one normalized row, as the parsers hand it   *)
(* over (cells stripped, null markers blanked)                             *)
(***************************************************************************)
\* the normalized rows of the model: one value per canonical key, and John Doe's
\* row with each of the other forms a profile URL cell takes
Rows ==
  LET combined ==
        [first_name : {"", "John"},
         last_name : {"", "Doe"},
         name : {"", "Johnny Doe"},
         email : {"", "jd@x.com", "@x.com"},
         company : {"", "Acme"},
         title : {"", "Engineer"},
         profile_url : {"", "jd"},
         phone : {"", "+1 (555) 0100", "+1 555+0100", "ext."},
         notes : {"", "met at PyCon"},
         connected_on : {"", "25 Jun 2023", "last week"}]
      profile_urls ==
        {"in/jd", "/in/jd", "linkedin.com/in/jd", "www.linkedin.com/in/jd",
         "https://www.LinkedIn.com/in/jd", "http://example.com/jd", "httpjd",
         "https://example.com/?linkedin.com"}
  IN combined
       \cup { [first_name |-> "John", last_name |-> "Doe", name |-> "", email |-> "",
               company |-> "", title |-> "", profile_url |-> u, phone |-> "", notes |-> "",
               connected_on |-> ""] : u \in profile_urls }

InitRow ==
  /\ RunIdle /\ VcIdle /\ HdIdle /\ PrIdle /\ YIdle
  /\ rc_pc = "ready"
  /\ rc_variant \in Variants
  /\ rc_row \in Rows
  /\ rc_index \in 1..MaxRowIndex
  /\ rc_result = [contact |-> NoContact, errors |-> <<>>]

\* contact, row_errors = self.row_to_contact(row, row_index); the clock reads t1
\* and then t2 at the two utcnow() calls
RowToContact ==
  /\ rc_pc = "ready"
  /\ \E t1 \in 1..MaxClock : \E t2 \in t1..MaxClock :
       rc_result' = row_to_contact(rc_variant, rc_row, rc_index, t1, t2)
  /\ rc_pc' = "done"
  /\ UNCHANGED <<rc_variant, rc_row, rc_index, runVars, vcVars, hdVars, prVars, yVars>>

NextRow == RowToContact

SpecRow == InitRow /\ [][NextRow]_vars

(***************************************************************************)
(* normalize_field_name on its own: every key of the synonym table, in the *)
(* spellings a header cell can give it                                     *)
(***************************************************************************)
Keys(v) == { p[1] : p \in field_mappings(v) }

\* the spellings of a key: in the letter case of the table, in upper case
\* (str.upper) or with capital initials (str.title); with each space of the key
\* as it is, repeated, or turned into '-', '_' or '.'; with or without
\* whitespace around it
Spellings(key) ==
  LET recase(s, how) ==
        IF how = "upper" THEN MapChars(s, [c \in CharsOf(s) |-> UpperChar(c)])
        ELSE IF how = "title" THEN Title(s) ELSE s
      separators == {" ", "  ", " \t ", "-", "_", "."}
      paddings == {<<"", "">>, <<" ", "  ">>, <<"\t", "\r">>}
  IN { pad[1] \o recase(Replace(key, " ", sep), how) \o pad[2] :
         how \in {"as is", "upper", "title"}, sep \in separators, pad \in paddings }

\* header cells the synonym table has no key for, and cells made of separators only
UnknownHeaders ==
  {"Twitter Handle", " Date.of-Birth ", "Notes:", "Work Place", "E mail", "First", "URL 2",
   "x", "_", " - ", "..", " "}

InitHeader ==
  /\ RunIdle /\ VcIdle /\ RcIdle /\ PrIdle /\ YIdle
  /\ hd_variant \in Variants
  /\ \/ /\ hd_pc = "ready"
        /\ hd_key \in Keys(hd_variant)
        /\ hd_spelling \in Spellings(hd_key)
     \/ /\ hd_pc = "ready, no key"
        /\ hd_key = ""
        /\ hd_spelling \in UnknownHeaders
  /\ hd_result = ""

\* normalized = self.normalize_field_name(field) for one cell of the header row
NormalizeHeader ==
  /\ hd_pc \in {"ready", "ready, no key"}
  /\ hd_result' = normalize_field_name(hd_variant, hd_spelling)
  /\ hd_pc' = IF hd_pc = "ready" THEN "done" ELSE "done, no key"
  /\ UNCHANGED <<hd_variant, hd_key, hd_spelling, runVars, vcVars, rcVars, prVars, yVars>>

\* normalize_field_name applied to what it returned: hd_spelling takes the first
\* result and hd_result the second
NormalizeAgain ==
  /\ hd_pc \in {"done", "done, no key"}
  /\ hd_spelling' = hd_result
  /\ hd_result' = normalize_field_name(hd_variant, hd_result)
  /\ hd_pc' = "again"
  /\ UNCHANGED <<hd_variant, hd_key, runVars, vcVars, rcVars, prVars, yVars>>

NextHeader == NormalizeHeader \/ NormalizeAgain

SpecHeader == InitHeader /\ [][NextHeader]_vars

(***************************************************************************)
(* The suspension points of process_csv_file_async. The rows are counted   *)
(* and not looked at, which lets the loop run with the sizes of the code.  *)
(***************************************************************************)
\* chunk_size = 1000 in both variants
chunk_size == 1000
\* enhanced: `(i + 1) % 100 == 0`
progress_every == 100

MaxYieldRows == 1001

InitYield ==
  /\ RunIdle /\ VcIdle /\ RcIdle /\ HdIdle /\ PrIdle
  /\ y_pc = "head"
  /\ y_variant \in Variants
  /\ y_callback \in BOOLEAN
  \* no row, one row, one full chunk, and a row more than one chunk
  /\ y_total \in {0, 1, chunk_size, MaxYieldRows}
  /\ y_done = 0 /\ y_len = 0 /\ y_i = 0 /\ y_run = 0

\* the loop takes its next chunk: rows[chunk_start:chunk_end], or the rows the
\* generator yields for data_lines[chunk_start:chunk_end]
YieldNextChunk ==
  /\ y_pc = "head" /\ y_done < y_total
  /\ y_len' = Min(chunk_size, y_total - y_done)
  /\ y_i' = 0
  /\ y_pc' = "rows"
  /\ UNCHANGED <<y_variant, y_callback, y_total, y_done, y_run,
                 runVars, vcVars, rcVars, hdVars, prVars>>

\* "Check timeout": the clock decides, and the loop is left
YieldTimeoutBreak ==
  /\ y_pc = "head" /\ y_done < y_total
  /\ y_pc' = "returned"
  /\ UNCHANGED <<y_variant, y_callback, y_total, y_done, y_len, y_i, y_run,
                 runVars, vcVars, rcVars, hdVars, prVars>>

\* no chunk is left
YieldLoopEnd ==
  /\ y_pc = "head" /\ y_done >= y_total
  /\ y_pc' = "returned"
  /\ UNCHANGED <<y_variant, y_callback, y_total, y_done, y_len, y_i, y_run,
                 runVars, vcVars, rcVars, hdVars, prVars>>

\* one row is mapped; enhanced, given a progress_callback, then awaits it and
\* asyncio.sleep(0.05) after every 100th row of the chunk
YieldMapRow ==
  /\ y_pc = "rows" /\ y_i < y_len
  /\ y_i' = y_i + 1
  /\ y_run' = IF y_variant = "enhanced" /\ y_callback /\ (y_i + 1) % progress_every = 0
                THEN 0 ELSE y_run + 1
  /\ UNCHANGED <<y_pc, y_variant, y_callback, y_total, y_done, y_len,
                 runVars, vcVars, rcVars, hdVars, prVars>>

\* after the chunk's last row: contacts.extend(chunk_contacts), the progress
\* report, and await asyncio.sleep(...)
YieldEndChunk ==
  /\ y_pc = "rows" /\ y_i = y_len
  /\ y_done' = y_done + y_len
  /\ y_run' = 0
  /\ y_pc' = "head"
  /\ UNCHANGED <<y_variant, y_callback, y_total, y_len, y_i,
                 runVars, vcVars, rcVars, hdVars, prVars>>

NextYield ==
  \/ YieldNextChunk \/ YieldTimeoutBreak \/ YieldLoopEnd \/ YieldMapRow \/ YieldEndChunk

SpecYield == InitYield /\ [][NextYield]_vars

(***************************************************************************)
(* Two runs of process_csv_file_async on the CSVService instance main.py   *)
(* shares among requests. A run gives way to the other at its awaits; what *)
(* it does between two awaits is one step.                                 *)
(***************************************************************************)
Runs == {"a", "b"}

\* the locals of a run that has been called and has not run yet
NewRun(c, ts) ==
  [content |-> c, timeout_seconds |-> ts, pc |-> "start", elapsed |-> 0,
   pending |-> <<>>, contacts |-> <<>>, all_errors |-> <<>>, fieldnames |-> <<>>,
   total_rows |-> 0, total_rows_processed |-> 0, result |-> NoResult, timed_out |-> FALSE]

\* from the call to the first await of the loop: simple awaits the parse task
\* (or its timeout), enhanced starts the generator
run_start(v, run) ==
  IF v = "simple"
    THEN IF run.timeout_seconds <= 0
           THEN [run EXCEPT !.result = wait_for_timeout_result(run.timeout_seconds),
                            !.pc = "returned", !.timed_out = TRUE]
         ELSE LET p == parse_csv_content(run.content)
              IN IF p.rows = <<>>
                   THEN [run EXCEPT !.result = [raised |-> FALSE, contacts |-> <<>>,
                                                total_rows |-> 0,
                                                errors |-> IF p.errors # <<>> THEN p.errors
                                                           ELSE <<"No valid contacts found.">>],
                                    !.pc = "returned"]
                   ELSE [run EXCEPT !.pending = slices_from(p.rows, ChunkSize, 0),
                                    !.all_errors = p.errors,
                                    !.fieldnames = p.fieldnames,
                                    !.total_rows = Len(p.rows),
                                    !.pc = "suspended"]
    ELSE [run EXCEPT !.pending = parse_csv_content_streaming(run.content, ChunkSize),
                     !.pc = "suspended"]

\* "Final validation" and the return
run_finish(v, run) ==
  [run EXCEPT !.result = final_result(v, run.content, run.contacts, run.all_errors,
                                      run.fieldnames, run.total_rows,
                                      run.total_rows_processed),
              !.pc = "returned"]

\* from one await of the loop to the next: the timeout test, the rows of the
\* chunk, and the chunk's contacts added; or the end of the loop and the return
run_chunk(v, run) ==
  IF run.pending = <<>> THEN run_finish(v, run)
  ELSE IF run.elapsed > run.timeout_seconds
    THEN run_finish(v, [run EXCEPT !.all_errors =
                                     Append(@, timeout_message(v, run.timeout_seconds,
                                                               Len(run.contacts), run.total_rows)),
                                   !.timed_out = TRUE])
  ELSE LET ch == Head(run.pending)
           rows == ch.chunk_rows
           errors1 == IF v = "enhanced" THEN run.all_errors \o ch.chunk_errors
                      ELSE run.all_errors
           mapped == [i \in 1..Len(rows) |->
                        row_to_contact(v, rows[i], run.total_rows_processed + i, 1, 1)]
           made == SelectSeq(mapped, LAMBDA r : r.contact # NoContact)
       IN IF v = "enhanced" /\ rows = <<>> /\ ch.chunk_errors # <<>> /\ ch.is_final_chunk
            THEN run_finish(v, [run EXCEPT !.all_errors = errors1, !.pending = Tail(@)])
          ELSE [run EXCEPT !.pending = Tail(@),
                           !.contacts = @ \o [i \in 1..Len(made) |-> made[i].contact],
                           !.all_errors = errors1 \o Concat([i \in 1..Len(mapped) |-> mapped[i].errors]),
                           !.total_rows_processed = @ + Len(rows)]

\* a table with an accepted and a rejected row, a table with the rows the other
\* way round, and a buffer that is no CSV
PairContents ==
  { Build(<<>>, <<JohnLine, TitleOnlyLine>>), Build(<<>>, <<TitleOnlyLine, AnnLine>>), "PK" }

InitPair ==
  /\ RunIdle /\ VcIdle /\ RcIdle /\ HdIdle /\ YIdle
  /\ p_variant \in Variants
  /\ p_runs \in [Runs -> { NewRun(c, ts) : c \in PairContents, ts \in 0..MaxTimeout }]

\* run r goes from its call to its first await
PairStart(r) ==
  /\ p_runs[r].pc = "start"
  /\ p_runs' = [p_runs EXCEPT ![r] = run_start(p_variant, @)]
  /\ UNCHANGED <<p_variant, runVars, vcVars, rcVars, hdVars, yVars>>

\* the diagnostics list is kept on the instance: what r leaves in it is what
\* every run finds in it
PairChunkSharedErrors(r) ==
  /\ p_runs[r].pc = "suspended"
  /\ LET after == run_chunk(p_variant, p_runs[r])
     IN p_runs' = [q \in Runs |->
                     IF q = r THEN after
                     ELSE [p_runs[q] EXCEPT !.all_errors = after.all_errors]]
  /\ UNCHANGED <<p_variant, runVars, vcVars, rcVars, hdVars, yVars>>

\* run r is resumed and goes on to its next await, or returns
PairChunk(r) ==
  /\ p_runs[r].pc = "suspended"
  /\ p_runs' = [p_runs EXCEPT ![r] = run_chunk(p_variant, @)]
  /\ UNCHANGED <<p_variant, runVars, vcVars, rcVars, hdVars, yVars>>

\* a second passes for run r while it is suspended; once the run's time is up
\* the clock need not be followed any further
PairTick(r) ==
  /\ p_runs[r].pc = "suspended" /\ p_runs[r].elapsed <= p_runs[r].timeout_seconds
  /\ p_runs' = [p_runs EXCEPT ![r].elapsed = @ + 1]
  /\ UNCHANGED <<p_variant, runVars, vcVars, rcVars, hdVars, yVars>>

NextPair == \E r \in Runs : PairStart(r) \/ PairChunk(r) \/ PairTick(r)

SpecPair == InitPair /\ [][NextPair]_vars

(***************************************************************************)
(* The loop of csv_service_enhanced.process_csv_file_async driven with     *)
(* every chunk size, no timeout firing                                     *)
(***************************************************************************)
MaxChunkSize == 3

InitChunks ==
  /\ VcIdle /\ RcIdle /\ HdIdle /\ PrIdle /\ YIdle
  /\ variant = "enhanced"
  /\ content \in Contents
  /\ timeout_seconds = MaxTimeout
  /\ pc = "start"
  /\ elapsed = 0
  /\ pending = <<>> /\ chunk = NoChunk /\ row_i = 1
  /\ chunk_contacts = <<>> /\ contacts = <<>> /\ all_errors = <<>> /\ fieldnames = <<>>
  /\ total_rows = 0 /\ total_rows_processed = 0
  /\ result = NoResult /\ validated = NoValidation /\ timed_out = FALSE

\* async for ... in self.parse_csv_content_streaming(content, chunk_size), for a
\* chunk_size of any value from 1 on
ParseStreamingSized ==
  /\ pc = "start" /\ variant = "enhanced"
  /\ \E size \in 1..MaxChunkSize :
       pending' = parse_csv_content_streaming(content, size)
  /\ pc' = "fetch"
  /\ UNCHANGED <<variant, content, timeout_seconds, elapsed, chunk, row_i, chunk_contacts,
                 contacts, all_errors, fieldnames, total_rows, total_rows_processed,
                 result, validated, timed_out, vcVars, rcVars, hdVars, prVars, yVars>>

\* the loop without the clock moving: its timeout test never fires
NextChunks == ParseStreamingSized \/ Fetch \/ StartChunk \/ MapRow \/ EndChunk \/ Finish

SpecChunks == InitChunks /\ [][NextChunks]_vars

(***************************************************************************)
(* Vocabulary of the properties                                            *)
(***************************************************************************)
\* both values present and equal once letter case is ignored
SameIgnoringCase(a, b) == a # None /\ b # None /\ Lower(a) = Lower(b)

IsPrefix(a, b) == Len(a) <= Len(b) /\ SubSeq(b, 1, Len(a)) = a

RECURSIVE IsSubsequence(_, _)
\* a can be had from b by leaving elements out
IsSubsequence(a, b) ==
  IF a = <<>> THEN TRUE
  ELSE IF b = <<>> THEN FALSE
  ELSE IF Head(a) = Head(b) THEN IsSubsequence(Tail(a), Tail(b))
  ELSE IsSubsequence(a, Tail(b))

HasError(errors, text) == \E i \in 1..Len(errors) : Contains(errors[i], text)

Occurs(x, s) == \E i \in 1..Len(s) : s[i] = x

\* the fields of a contact the clock has no part in
Core(c) == <<c.name, c.email, c.company, c.title, c.phone, c.linkedinUrl>>
Cores(cs) == [i \in 1..Len(cs) |-> Core(cs[i])]

RECURSIVE FlattenRows(_)
\* the rows of a list of chunks, in order
FlattenRows(chunks) ==
  IF chunks = <<>> THEN <<>> ELSE Head(chunks).chunk_rows \o FlattenRows(Tail(chunks))

\* the rows the variant's parser hands to the loop
parsed_rows(v, c) ==
  IF v = "simple" THEN parse_csv_content(c).rows
  ELSE FlattenRows(parse_csv_content_streaming(c, ChunkSize))

RECURSIVE mapped_contacts(_, _, _)
\* the contacts of the first k rows: what the loop collects when no timeout ends it
mapped_contacts(v, rows, k) ==
  IF k = 0 THEN <<>>
  ELSE LET r == row_to_contact(v, rows[k], k, 1, 1)
       IN IF r.contact # NoContact
            THEN Append(mapped_contacts(v, rows, k - 1), r.contact)
            ELSE mapped_contacts(v, rows, k - 1)

untimed_contacts(v, c) == mapped_contacts(v, parsed_rows(v, c), Len(parsed_rows(v, c)))

\* the 0-based line index the variant's header locator returns for the buffer
header_line_index(v, c) ==
  LET text_content == decode(c)
      lines == Split(Strip(text_content), "\n")
  IN IF v = "simple" THEN find_header_row(lines, sniff_delimiter(text_content)).index
     ELSE detect_metadata_rows(lines, detect_delimiter(text_content))

LinesOf(c) == Split(c, "\n")
CellsOf(c, i) == csv_row(LinesOf(c)[i], ",")

\* the canonical header on the first line, every later line with all of its
\* seven cells filled
CleanTable(c) ==
  /\ c # "" /\ LinesOf(c)[1] = CanonicalHeader
  /\ \A i \in 2..Len(LinesOf(c)) :
       /\ Len(CellsOf(c, i)) = 7
       /\ \A j \in 1..7 : Strip(CellsOf(c, i)[j]) # ""

DistinctEmails(c) ==
  \A i, j \in 2..Len(LinesOf(c)) :
    i < j => ~SameIgnoringCase(Strip(CellsOf(c, i)[4]), Strip(CellsOf(c, j)[4]))

\* the import has come to its end: with contacts it validates them, without it
\* answers at once
ImportDone == pc = "validated" \/ (pc = "returned" /\ result.contacts = <<>>)

\* N contacts, row by row, N rows counted, nothing reported
RoundTrip(c) ==
  LET n == Len(LinesOf(c)) - 1
      out == validated.valid_contacts
  IN /\ Len(out) = n
     /\ \A i \in 1..n :
          /\ out[i].name = Strip(CellsOf(c, i + 1)[1]) \o " " \o Strip(CellsOf(c, i + 1)[2])
          /\ out[i].email = Strip(CellsOf(c, i + 1)[4])
          /\ out[i].company = Strip(CellsOf(c, i + 1)[5])
          /\ out[i].title = Strip(CellsOf(c, i + 1)[6])
     /\ result.total_rows = n
     /\ result.errors = <<>> /\ validated.errors = <<>>

\* k banner lines, the canonical header, and John's line
IsBannerInput(c, k) ==
  /\ c # "" /\ Len(LinesOf(c)) = k + 2
  /\ \A i \in 1..k : LinesOf(c)[i] \in BannerLines
  /\ LinesOf(c)[k + 1] = CanonicalHeader
  /\ LinesOf(c)[k + 2] = JohnLine

JohnRow ==
  [first_name |-> "John", last_name |-> "Doe", profile_url |-> "https://linkedin.com/in/jd",
   email |-> "jd@x.com", company |-> "Acme", title |-> "Engineer",
   connected_on |-> "25 Jun 2023"]

HasContainerSignature(c) == StartsWith(c, "PK") \/ StartsWith(c, OleMagic)

\* the chunks the variant's loop goes through for a buffer
chunk_list(v, c) ==
  IF v = "simple" THEN slices_from(parse_csv_content(c).rows, ChunkSize, 0)
  ELSE parse_csv_content_streaming(c, ChunkSize)

RECURSIVE after_chunks(_, _, _)
\* contacts, diagnostics and row count once the loop has been through the first
\* k chunks without leaving
after_chunks(v, chunks, k) ==
  IF k = 0 THEN [contacts |-> <<>>, errors |-> <<>>, rows |-> 0]
  ELSE LET prev == after_chunks(v, chunks, k - 1)
           rows == chunks[k].chunk_rows
           mapped == [i \in 1..Len(rows) |-> row_to_contact(v, rows[i], prev.rows + i, 1, 1)]
           made == SelectSeq(mapped, LAMBDA r : r.contact # NoContact)
       IN [contacts |-> prev.contacts \o [i \in 1..Len(made) |-> made[i].contact],
           errors |-> prev.errors
                        \o (IF v = "enhanced" THEN chunks[k].chunk_errors ELSE <<>>)
                        \o Concat([i \in 1..Len(mapped) |-> mapped[i].errors]),
           rows |-> prev.rows + Len(rows)]

\* a diagnostic about one row, and about row i
IsRowDiagnostic(e) == StartsWith(e, "Row ")
IsDiagnosticOfRow(e, i) == StartsWith(e, "Row " \o IntToStr(i) \o ":")
IsTimeoutDiagnostic(e) == Contains(e, "timed out")

\* the positions of a list of diagnostics a test picks out
Positions(errors, Test(_)) == { j \in 1..Len(errors) : Test(errors[j]) }

\* the parser gave up on the buffer as a whole
fatal_parse_error(v, c) ==
  IF v = "simple" THEN parse_csv_content(c).errors # <<>>
  ELSE \E i \in 1..Len(chunk_list(v, c)) : chunk_list(v, c)[i].chunk_errors # <<>>

\* the run has returned
Returned == pc \in {"returned", "validated"}

\* what a run on its own returns for a buffer when it gets through k chunks and
\* then either meets the timeout (expired) or the end of its loop
run_alone(v, c, ts, k, expired) ==
  IF v = "simple" /\ ts <= 0 THEN wait_for_timeout_result(ts)
  ELSE IF v = "simple" /\ parse_csv_content(c).rows = <<>>
    THEN [raised |-> FALSE, contacts |-> <<>>, total_rows |-> 0,
          errors |-> IF parse_csv_content(c).errors # <<>> THEN parse_csv_content(c).errors
                     ELSE <<"No valid contacts found.">>]
  ELSE LET done == after_chunks(v, chunk_list(v, c), k)
           n == IF v = "simple" THEN Len(parse_csv_content(c).rows) ELSE 0
           names == IF v = "simple" THEN parse_csv_content(c).fieldnames ELSE <<>>
           errors == IF expired
                       THEN Append(done.errors, timeout_message(v, ts, Len(done.contacts), n))
                       ELSE done.errors
       IN final_result(v, c, done.contacts, errors, names, n, done.rows)

(***************************************************************************)
(* Properties                                                              *)
(***************************************************************************)
\* C1: name totality. For every normalized row that passes the validity gate,
\* row_to_contact emits a contact whose name is neither empty nor all whitespace.
C1_NameTotality ==
  (rc_pc = "done" /\ is_valid_contact_row(rc_variant, rc_row)) =>
    /\ rc_result.contact # NoContact
    /\ Strip(rc_result.contact.name) # ""

\* C2: batch uniqueness after deduplication. No two contacts of the list
\* validate_contacts keeps have the same non-empty email ignoring case, and no
\* two have the same non-empty profile URL ignoring case.
C2_BatchUniqueness ==
  vc_pc # "ready" =>
    \A i, j \in 1..Len(vc_first.valid_contacts) :
      i < j =>
        /\ ~SameIgnoringCase(vc_first.valid_contacts[i].email, vc_first.valid_contacts[j].email)
        /\ ~SameIgnoringCase(vc_first.valid_contacts[i].linkedinUrl,
                             vc_first.valid_contacts[j].linkedinUrl)

\* three candidates of which two have emails that differ in letter case only,
\* and two are kept
C2_Witness ==
  /\ vc_pc = "first" /\ Len(vc_input) = 3 /\ Len(vc_first.valid_contacts) = 2
  /\ \E i, j \in 1..3 :
       /\ i < j /\ vc_input[i].email # vc_input[j].email
       /\ SameIgnoringCase(vc_input[i].email, vc_input[j].email)

\* C3: first occurrence wins. A candidate that validate_contacts drops has the
\* email, or the profile URL, of an earlier candidate that was kept (ignoring
\* case): a candidate that is itself dropped never causes a later one to be
\* dropped.
C3_FirstOccurrenceWins ==
  vc_pc # "ready" =>
    \A k \in 1..Len(vc_input) :
      ~Occurs(vc_input[k], vc_first.valid_contacts) =>
        \E j \in 1..(k - 1) :
          /\ Occurs(vc_input[j], vc_first.valid_contacts)
          /\ \/ SameIgnoringCase(vc_input[j].email, vc_input[k].email)
             \/ SameIgnoringCase(vc_input[j].linkedinUrl, vc_input[k].linkedinUrl)

\* C4: dedup idempotence. validate_contacts run on the list it kept returns
\* that list unchanged and records no duplicate diagnostic.
C4_DedupIdempotence ==
  vc_pc = "second" =>
    /\ vc_second.valid_contacts = vc_first.valid_contacts
    /\ vc_second.errors = <<>>

\* the first run dropped a candidate and kept at least two
C4_Witness ==
  /\ vc_pc = "second"
  /\ Len(vc_first.valid_contacts) >= 2 /\ vc_first.errors # <<>>
  /\ Len(vc_second.valid_contacts) >= 2

\* C5: duplicate collapsing and accounting. validate_contacts returns a
\* subsequence of its input in input order and one duplicate diagnostic for each
\* candidate it drops, so kept + diagnostics = input; two candidates with
\* different names and emails equal ignoring case give the first one kept and
\* one diagnostic.
C5_DuplicateAccounting ==
  vc_pc # "ready" =>
    /\ Len(vc_first.valid_contacts) + Len(vc_first.errors) = Len(vc_input)
    /\ IsSubsequence(vc_first.valid_contacts, vc_input)
    /\ \A i \in 1..Len(vc_first.errors) : StartsWith(vc_first.errors[i], "Duplicate ")
    /\ (/\ Len(vc_input) = 2
        /\ vc_input[1].name # vc_input[2].name
        /\ SameIgnoringCase(vc_input[1].email, vc_input[2].email))
       => /\ vc_first.valid_contacts = <<vc_input[1]>>
          /\ Len(vc_first.errors) = 1

\* two people on addresses that differ in letter case only
C5_Witness ==
  /\ vc_pc = "first" /\ Len(vc_input) = 2
  /\ vc_input[1].name # vc_input[2].name
  /\ vc_input[1].email # vc_input[2].email
  /\ SameIgnoringCase(vc_input[1].email, vc_input[2].email)
  /\ vc_first.valid_contacts = <<vc_input[1]>>
  /\ vc_first.errors = <<"Duplicate email found: " \o vc_input[2].email>>

\* C6 as stated: a run that its timeout ends, on a buffer a run without timeout
\* gets contacts from, does not raise, returns a non-empty prefix of those
\* contacts, and reports the timeout.
C6_NonEmptyPartialResult ==
  (pc = "returned" /\ timed_out /\ untimed_contacts(variant, content) # <<>>) =>
    /\ ~result.raised
    /\ result.contacts # <<>>
    /\ IsPrefix(Cores(result.contacts), Cores(untimed_contacts(variant, content)))
    /\ HasError(result.errors, "timed out")

\* C6: timeout partial result. A run of process_csv_file_async that its timeout
\* ends (the elapsed-time test at the head of the chunk loop, or wait_for) does
\* not raise, returns a prefix, which may be empty, of the contacts a run without
\* timeout returns, and its diagnostics hold a message that mentions the timeout.
C6_TimeoutPartialResult ==
  (pc = "returned" /\ timed_out) =>
    /\ ~result.raised
    /\ IsPrefix(Cores(result.contacts), Cores(untimed_contacts(variant, content)))
    /\ HasError(result.errors, "timed out")

\* the timeout ended the run after some contacts and before others
C6_Witness ==
  /\ pc = "returned" /\ timed_out
  /\ result.contacts # <<>>
  /\ Len(result.contacts) < Len(untimed_contacts(variant, content))

\* C7: round trip on clean input. The canonical header and N rows (here N >= 1)
\* with every cell filled and pairwise distinct emails come back, when no timeout
\* ends the run, as N contacts in input order, totalRows N and no diagnostics.
C7_RoundTripDistinctEmails ==
  (/\ ImportDone /\ ~timed_out /\ CleanTable(content)
   /\ Len(LinesOf(content)) >= 2
   /\ DistinctEmails(content)) =>
    RoundTrip(content)

\* C8: metadata-row skipping. With k banner lines before the canonical header,
\* the header locator returns k, and the lines after the header are the data,
\* each cell under the canonical field of its column.
C8_MetadataSkipping ==
  \A k \in 1..MaxBanner :
    (pc # "start" /\ ~timed_out /\ IsBannerInput(content, k)) =>
      /\ header_line_index(variant, content) = k
      /\ parsed_rows(variant, content) = <<JohnRow>>
      /\ (pc = "fetch" /\ chunk = NoChunk) => FlattenRows(pending) = <<JohnRow>>

\* C9: unsupported-format rejection. For a buffer that starts with a spreadsheet
\* container signature the run maps no rows, returns no contacts and totalRows
\* 0, and its diagnostics name the format and tell the user to save as CSV.
C9_UnsupportedFormat ==
  (pc = "returned" /\ HasContainerSignature(content)) =>
    /\ result.contacts = <<>>
    /\ result.total_rows = 0 /\ total_rows_processed = 0
    /\ \E i \in 1..Len(result.errors) :
         /\ Contains(result.errors[i], "Numbers") \/ Contains(result.errors[i], "Excel")
         /\ Contains(result.errors[i], "not") /\ Contains(result.errors[i], "supported")
         /\ Contains(result.errors[i], "CSV")

\* C10: missing-email annotation. Every contact row_to_contact emits for a row
\* without email has no email and notes that hold the "Email missing" marker,
\* in both variants.
C10_MissingEmailAnnotation ==
  (rc_pc = "done" /\ rc_result.contact # NoContact /\ Get(rc_row, "email") = "") =>
    /\ rc_result.contact.email = None
    /\ Contains(rc_result.contact.notes, "Email missing")

\* the five fields the validity gate is said to look at
GateFields == {"first_name", "last_name", "company", "email", "profile_url"}
HasGateSignal(row) == \E k \in GateFields : Get(row, k) # ""

C12_FirstAndLastRequired ==
  (/\ rc_pc = "done"
   /\ (Get(rc_row, "first_name") = "") # (Get(rc_row, "last_name") = "")) =>
    /\ ~is_valid_contact_row(rc_variant, rc_row)
    /\ rc_result.contact = NoContact

\* C13: flexible header matching. For every key of the synonym table and every
\* spelling of it that changes letter case, adds whitespace around it, repeats
\* its inner whitespace or puts '-', '_' or '.' for its spaces,
\* normalize_field_name returns the canonical name the table gives the key.
C13_FlexibleHeaderMatching ==
  hd_pc = "done" => hd_result = Mapping(hd_variant, hd_key)

\* 'Last.Name' has been normalized to last_name
C13_Witness ==
  /\ hd_pc = "done" /\ hd_key = "last name" /\ hd_spelling = "Last.Name"
  /\ hd_result = "last_name"

\* C14: relationship strength. The contact of a row is strong if the row has a
\* phone (also when it has an email), otherwise medium if it has an email or
\* notes, otherwise weak.
C14_RelationshipStrength ==
  (rc_pc = "done" /\ rc_result.contact # NoContact) =>
    rc_result.contact.relationshipStrength =
      IF Get(rc_row, "phone") # "" THEN "strong"
      ELSE IF Get(rc_row, "email") # "" \/ Get(rc_row, "notes") # "" THEN "medium"
      ELSE "weak"

\* C15: row-level failure isolation and accounting. In a run that ends without
\* timeout and without fatal parse error, every row the parser hands over gives
\* either one contact or one "Row N" diagnostic with its index, rows after a
\* rejected row are still mapped, the contacts are in row order, and contacts
\* plus "Row N" diagnostics add up to totalRows.
C15_RowAccounting ==
  (Returned /\ ~timed_out /\ ~fatal_parse_error(variant, content)) =>
    LET rows == parsed_rows(variant, content)
        n == Len(rows)
        about(i) == Positions(result.errors, LAMBDA e : IsDiagnosticOfRow(e, i))
        accepted == { i \in 1..n : about(i) = {} }
    IN /\ result.total_rows = n
       /\ \A i \in 1..n : Cardinality(about(i)) <= 1
       /\ \A i \in 1..n :
            (i \in accepted) <=> (row_to_contact(variant, rows[i], i, 1, 1).contact # NoContact)
       /\ Cores(result.contacts) = Cores(mapped_contacts(variant, rows, n))
       /\ Len(result.contacts) = Cardinality(accepted)
       /\ Len(result.contacts) + Cardinality(Positions(result.errors, IsRowDiagnostic))
            = result.total_rows

\* a rejected first row and an accepted second row have gone through
C15_Witness ==
  /\ Returned /\ ~timed_out /\ result.total_rows = 2
  /\ Len(result.contacts) = 1
  /\ Len(result.errors) = 1 /\ IsDiagnosticOfRow(result.errors[1], 1)

\* C16: zero contacts always come with an explanation. Whenever a run returns
\* an empty contact list, its diagnostics list is not empty.
C16_ZeroContactsExplained ==
  (Returned /\ result.contacts = <<>>) => result.errors # <<>>

\* a header without data rows has been answered with a diagnostic
C16_Witness ==
  /\ Returned /\ ~timed_out /\ content = CanonicalHeader
  /\ result.contacts = <<>> /\ result.errors # <<>>

\* C17: isolation of concurrent imports. Two runs on the shared CSVService
\* instance, interleaved at their awaits in any way, each return the contacts,
\* totalRows and diagnostics the run returns on its own for its buffer, its
\* timeout and the chunks it got through: nothing of the other run shows in it.
C17_ConcurrentImportIsolation ==
  \A r \in DOMAIN p_runs :
    p_runs[r].pc = "returned" =>
      p_runs[r].result =
        run_alone(p_variant, p_runs[r].content, p_runs[r].timeout_seconds,
                  Len(chunk_list(p_variant, p_runs[r].content)) - Len(p_runs[r].pending),
                  p_runs[r].timed_out)

\* run a has returned contacts and diagnostics while run b, one chunk into its
\* own buffer, is suspended
C17_Witness ==
  /\ DOMAIN p_runs = Runs
  /\ p_runs["a"].pc = "returned" /\ ~p_runs["a"].timed_out
  /\ p_runs["a"].result.contacts # <<>> /\ p_runs["a"].result.errors # <<>>
  /\ p_runs["b"].pc = "suspended" /\ p_runs["b"].total_rows_processed = 1
  /\ p_runs["b"].pending # <<>>
  /\ p_runs["b"].content # p_runs["a"].content

\* C18: timeout at chunk boundaries. When the timeout ends a run, the contacts
\* returned are those of the first k whole chunks for some k >= 0, in order,
\* and exactly one timeout diagnostic is there, right after the diagnostics of
\* those k chunks; no row is mapped after it.
C18_TimeoutAtChunkBoundary ==
  (Returned /\ timed_out) =>
    \E k \in 0..Len(chunk_list(variant, content)) :
      LET done == after_chunks(variant, chunk_list(variant, content), k)
          timeouts == Positions(result.errors, IsTimeoutDiagnostic)
      IN /\ Cores(result.contacts) = Cores(done.contacts)
         /\ timeouts = {Len(done.errors) + 1}
         /\ Prefix(result.errors, Len(done.errors)) = done.errors
         /\ \A j \in (Len(done.errors) + 2)..Len(result.errors) :
              ~IsRowDiagnostic(result.errors[j])

\* the timeout ended the run between a rejected row's chunk and the next chunk
C18_Witness ==
  /\ Returned /\ timed_out /\ Len(chunk_list(variant, content)) = 2
  /\ total_rows_processed = 1
  /\ Len(result.errors) >= 2
  /\ IsDiagnosticOfRow(result.errors[1], 1) /\ IsTimeoutDiagnostic(result.errors[2])

\* C19: cooperative yielding. The run suspends between every two consecutive
\* chunks and, within a chunk, at least once every 100 rows, with or without a
\* progress callback: it never maps more than 100 rows in a row without a
\* suspension point.
C19_CooperativeYielding ==
  /\ y_pc = "head" => y_run = 0
  /\ y_run <= 100

\* decimal digits, with at most one "+" and that at the front
IsCleanPhone(p) ==
  LET digits == IF StartsWith(p, "+") THEN SubSeq(p, 2, Len(p)) ELSE p
  IN AllDigits(digits)

\* C20: phone cleaning. The phone of an emitted contact is absent, or decimal
\* digits with at most a single "+" in front of them; a raw value without
\* digits gives an absent phone.
C20_PhoneCleaning ==
  (rc_pc = "done" /\ rc_result.contact # NoContact) =>
    /\ rc_result.contact.phone = None \/ IsCleanPhone(rc_result.contact.phone)
    /\ (\A i \in 1..Len(Get(rc_row, "phone")) : ~IsDigit(Ch(Get(rc_row, "phone"), i))) =>
         rc_result.contact.phone = None

\* the profile URL cell of the row is given and is not an absolute URL
RelativeUrl(raw) == raw # "" /\ ~StartsWith(raw, "http")

\* C21: profile-URL canonicalisation. For every non-empty raw value that does
\* not start with 'http', the profile URL of the contact is exactly
\* 'https://linkedin.com/in/' followed by the trimmed value; and for every raw
\* value, a result without 'linkedin.com' in it is cleared.
C21_ProfileUrlCanonical ==
  (rc_pc = "done" /\ rc_result.contact # NoContact) =>
    LET raw == Get(rc_row, "profile_url")
        url == rc_result.contact.linkedinUrl
    IN /\ RelativeUrl(raw) => url = "https://linkedin.com/in/" \o Strip(raw)
       /\ url = None \/ Contains(Lower(url), "linkedin.com")

\* the variant's header locator has run on the buffer, found no line that
\* qualifies as a header and fallen back to the first non-blank line
header_guessed(v, c) ==
  LET text_content == decode(c)
      lines == Split(Strip(text_content), "\n")
  IN /\ format_error(v, c) = ""
     /\ IF v = "simple"
          THEN /\ \E d \in {",", ";", "\t"} : Contains(text_content, d)
               /\ \A i \in 1..Len(lines) : ~looks_like_header(lines[i], sniff_delimiter(text_content))
               /\ find_header_row(lines, sniff_delimiter(text_content)).index # -1
          ELSE /\ \A i \in 1..Min(10, Len(lines)) :
                    Strip(lines[i]) = "" \/ header_matches(lines[i], detect_delimiter(text_content)) < 3
               /\ \E i \in 1..Len(lines) : Strip(lines[i]) # ""

\* C22: header fallback is reported. Whenever the locator found no qualifying
\* header line and fell back to the first non-blank line, the diagnostics the
\* run returns hold one that speaks of the header.
C22_HeaderFallbackReported ==
  (Returned /\ ~timed_out /\ header_guessed(variant, content)) =>
    \E i \in 1..Len(result.errors) : Contains(Lower(result.errors[i]), "header")

\* C23: metadata lines are never the header. The line whose index
\* detect_metadata_rows returns is not one the locator classifies as metadata
\* (at most 2 non-blank cells and a metadata indicator word), also when the
\* index comes from the fallback.
C23_MetadataNeverHeader ==
  (variant = "enhanced" /\ pc # "start" /\ format_error(variant, content) = "") =>
    LET text_content == decode(content)
        lines == Split(Strip(text_content), "\n")
        delimiter == detect_delimiter(text_content)
    IN ~is_metadata(lines[detect_metadata_rows(lines, delimiter) + 1], delimiter)

CanonicalNames ==
  {"first_name", "last_name", "name", "email", "phone", "company", "title", "profile_url",
   "connected_on", "notes"}

\* C24: normalizer outputs are fixed points. normalize_field_name applied to
\* what it returned, a canonical name or the slug of an unknown header, returns
\* it unchanged, in both variants.
C24_NormalizerFixedPoint ==
  /\ hd_pc = "again" =>
       /\ hd_result = hd_spelling
       /\ hd_key # "" => hd_spelling \in CanonicalNames
  /\ \A n \in CanonicalNames : normalize_field_name(hd_variant, n) = n

\* the slug of ' Date.of-Birth ' has been normalized again and has stayed
C24_Witness ==
  /\ hd_pc = "again" /\ hd_key = "" /\ hd_spelling = "date_of_birth"
  /\ hd_result = "date_of_birth"

\* the names the variant's parser gives the cells of the header line it settles on
header_names(v, c) ==
  LET text_content == decode(c)
      lines == Split(Strip(text_content), "\n")
  IN IF v = "simple" THEN parse_csv_content(c).fieldnames
     ELSE normalize_all("enhanced",
            csv_row(lines[detect_metadata_rows(lines, detect_delimiter(text_content)) + 1],
                    detect_delimiter(text_content)))

\* C25: the byte-order mark is removed. For a UTF-8 buffer that begins with a
\* byte-order mark the first header cell gets the same canonical name, and the
\* run returns the same contacts, as for the buffer without the mark.
C25_ByteOrderMarkRemoved ==
  (Returned /\ ~timed_out /\ StartsWith(content, BomBytes)) =>
    /\ header_names(variant, content) = header_names(variant, Tail(content))
    /\ Cores(result.contacts) = Cores(untimed_contacts(variant, Tail(content)))

\* C26: strength agrees with the stored fields. A contact with relationship
\* strength strong has a phone, and a contact with strength medium has an email
\* or carries notes of its row (not only the notes row_to_contact makes up).
C26_StrengthAgreesWithFields ==
  (rc_pc = "done" /\ rc_result.contact # NoContact) =>
    LET contact == rc_result.contact
        own_notes == Cleaned(rc_row, "notes")
    IN /\ contact.relationshipStrength = "strong" => contact.phone # None
       /\ contact.relationshipStrength = "medium" =>
            \/ contact.email # None
            \/ own_notes # "" /\ Contains(contact.notes, own_notes)

\* the delimiter the variant's parser settles on
delimiter_of(v, c) ==
  IF v = "simple" THEN sniff_delimiter(decode(c)) ELSE detect_delimiter(decode(c))

\* the data lines the parser makes rows of, in order
usable_lines(v, c) ==
  LET lines == Split(Strip(decode(c)), "\n")
  IN SelectSeq(SubSeq(lines, header_line_index(v, c) + 2, Len(lines)),
       LAMBDA line : /\ Strip(line) # ""
                     /\ has_data(v, header_names(v, c), csv_row(line, delimiter_of(v, c))))

\* C27: no value is lost when headers collide. If two header cells normalize to
\* the same field, every row with a value in one of those columns has a
\* non-empty value for that field.
C27_NoValueLostOnCollision ==
  (pc # "start" /\ ~timed_out /\ ~fatal_parse_error(variant, content)) =>
    LET names == header_names(variant, content)
        lines == usable_lines(variant, content)
        rows == parsed_rows(variant, content)
    IN \A i \in 1..Len(lines) : \A j, k \in 1..Len(names) :
         (/\ j # k /\ names[j] = names[k]
          /\ column_value(variant, csv_row(lines[i], delimiter_of(variant, content)), j) # "")
           => rows[i][names[j]] # ""

\* the value matches one of the formats parse_connected_date knows
IsKnownDate(date_str) ==
  \/ strptime_d_b_Y(Strip(date_str)) # BadDate
  \/ strptime_Y_m_d(Strip(date_str)) # BadDate
  \/ strptime_m_d_Y(Strip(date_str)) # BadDate

\* C28: date annotation only for parsed dates. In csv_service_simple, the notes
\* of a contact hold a 'Connected on LinkedIn: <date>' line only if the row's
\* connection date matched a known format; a non-empty value that matches none
\* gives the ingestion time as addedAt and no date line.
C28_DateNoteOnlyForParsedDates ==
  (rc_pc = "done" /\ rc_variant = "simple" /\ rc_result.contact # NoContact) =>
    LET date_str == Get(rc_row, "connected_on")
        contact == rc_result.contact
        has_date_line == Contains(contact.notes, "Connected on LinkedIn: ")
    IN /\ has_date_line => IsKnownDate(date_str)
       /\ (date_str # "" /\ ~IsKnownDate(date_str)) =>
            /\ contact.addedAt.tick > 0
            /\ ~has_date_line

IsFormatDiagnostic(e) == Contains(e, "Numbers files") \/ Contains(e, "Excel files")

\* C29: format rejection has no false positives. The unsupported-format
\* diagnostic (Numbers/Excel) is returned only for a buffer that begins with the
\* zip signature 'PK' or the compound-document signature; plain text without
\* either is never turned down by the format check.
C29_FormatRejectionOnlyForSignatures ==
  (Returned /\ Positions(result.errors, IsFormatDiagnostic) # {}) =>
    HasContainerSignature(content)

\* how often e occurs in the list s
Count(e, s) == Cardinality({ i \in 1..Len(s) : s[i] = e })

\* what the enhanced run returns when one chunk covers all data lines
single_chunk_result(c) ==
  LET chunks == parse_csv_content_streaming(c, Len(Split(decode(c), "\n")) + 1)
      done == after_chunks("enhanced", chunks, Len(chunks))
  IN final_result("enhanced", c, done.contacts, done.errors, <<>>, 0, done.rows)

\* C30: chunk-size independence. With no timeout firing, the enhanced loop
\* driven with any chunk size >= 1 returns the same contacts in the same order,
\* the same totalRows, the same 'Row N' diagnostics and the same multiset of
\* diagnostics as with a single chunk covering all data lines.
C30_ChunkSizeIndependence ==
  (Returned /\ variant = "enhanced" /\ ~timed_out) =>
    LET single == single_chunk_result(content)
    IN /\ Cores(result.contacts) = Cores(single.contacts)
       /\ result.total_rows = single.total_rows
       /\ SelectSeq(result.errors, IsRowDiagnostic) = SelectSeq(single.errors, IsRowDiagnostic)
       /\ Len(result.errors) = Len(single.errors)
       /\ \A i \in 1..Len(result.errors) :
            Count(result.errors[i], result.errors) = Count(result.errors[i], single.errors)

\* a run in chunks of one row has returned John's contact and the diagnostic of
\* the rejected second row
C30_Witness ==
  /\ Returned /\ variant = "enhanced" /\ ~timed_out
  /\ total_rows_processed = 2 /\ Len(chunk.chunk_rows) = 1
  /\ Len(result.contacts) = 1 /\ result.contacts[1].name = "John Doe"
  /\ Len(result.errors) = 1 /\ IsDiagnosticOfRow(result.errors[1], 2)
====
